---- MODULE Spec2Model ----
(***************************************************************************)
(* A model of the two holiday pages of src/script.js: "Harvest of          *)
(* Gratitude" (Thanksgiving, lines 1-778) and "Happy New Year 2026"        *)
(* (lines 780-1753).  A browser tab loads one of the two scripts; the      *)
(* variable page says which.                                               *)
(*                                                                         *)
(* Numbers.  JavaScript numbers are modelled in fixed point, in            *)
(* thousandths: 0.3 is 300, one pixel is 1000, one radian is 1000.         *)
(* Canvas sizes and counters are plain integers.  Math.random is a stream  *)
(* of draws; rnd is the position in the stream and the seed is an input    *)
(* chosen in Init.                                                         *)
(***************************************************************************)
EXTENDS Integers, Sequences, FiniteSets, TLC

VARIABLES
    page,        \* "thanksgiving" or "newyear": the script the tab loaded
    rnd,         \* position in the Math.random stream
    canvas,      \* [width, height] of the window and of the full-window canvases
    time,        \* the systems' tick counter (this.time)
    wind,        \* LeafSystem.wind
    targetWind,  \* LeafSystem.targetWind
    events,      \* number of resize / timer / launch events taken so far
    leaf,        \* one Leaf
    ember,       \* one Ember
    amb,         \* one AmbientParticle
    drawn,       \* what the last Ember.draw rendered
    recycles,    \* how many times update has reset the leaf, ember, particle
    config,      \* the counts of CONFIG that the handlers write
    burst,       \* one Firework: [x, y, color, particles, updates]
    hidden,      \* document.hidden
    shown,       \* the counts of CONFIG when the tab was last hidden
    loaded,      \* DOMContentLoaded has run new App()
    present,     \* the ids of the canvases the page holds
    built,       \* the counts of CONFIG read by the systems' constructors
    raf,         \* the requestAnimationFrame callbacks pending, in order
    timers,      \* the setTimeout callbacks pending
    error,       \* the uncaught exceptions thrown so far, in order
    frames,      \* animation frames the browser has run
    frameDraws,  \* draws made by each system during the last frame
    leaves,      \* LeafSystem.leaves
    embers,      \* EmberSystem.embers
    stars,       \* StarfieldSystem.stars
    particles,   \* AmbientParticleSystem.particles
    fireworks,   \* FireworksSystem.fireworks
    wishes,      \* WishesSystem: [stars, wishCount, canvas]
    echoes,      \* the floating DOM elements of wishes and gratitudes
    tree,        \* GratitudeTree: [gratitudeLeaves, animationFrame]
    branch,      \* one run of GratitudeTree.drawBranch: its call stack and counts
    auto,        \* the auto-launch fields and intervals of the FireworksSystem
    konami       \* the Konami handler: konamiIndex and the systems it created

partVars == <<leaf, ember, amb, drawn, recycles>>
sysVars == <<page, rnd, canvas, time, wind, targetWind, events>>
pageVars == <<hidden, shown, loaded, present, built, raf, timers, error, frames,
              frameDraws, leaves, embers, stars, particles, fireworks, wishes,
              echoes, tree>>
vars == <<page, rnd, canvas, time, wind, targetWind, events,
          leaf, ember, amb, drawn, recycles, config, burst,
          hidden, shown, loaded, present, built, raf, timers, error, frames,
          frameDraws, leaves, embers, stars, particles, fireworks, wishes,
          echoes, tree, branch, auto, konami>>
auxVars == <<branch, auto, konami>>

None == [none |-> TRUE]
NoPage == "none"

----------------------------------------------------------------------------
(* Bounds of the model *)

\* number of seeds of the random stream tried
MaxSeed == 2
\* frames a particle is followed for
MaxTicks == 260
\* resize and wind-gust events per behaviour
MaxEvents == 1

----------------------------------------------------------------------------
(* CONFIG and the degradation handlers *)

\* the counts of the CONFIG literal of each script
InitialConfig(pg) ==
    IF pg = "thanksgiving"
    THEN [leaves |-> 50, embers |-> 30]
    ELSE [stars |-> 200, particles |-> 25, particleCount |-> 80]

\* the reduced-motion check at the end of each script
ReducedMotion(pg, cfg) ==
    IF pg = "thanksgiving"
    THEN [cfg EXCEPT !.leaves = 5, !.embers = 3]
    ELSE [cfg EXCEPT !.stars = 30, !.particles = 5, !.particleCount = 30]

\* the visibilitychange handler of each script; nowHidden is document.hidden
VisibilityHandler(pg, cfg, nowHidden) ==
    IF pg = "thanksgiving"
    THEN IF nowHidden
         THEN [cfg EXCEPT !.leaves = 10, !.embers = 5]
         ELSE [cfg EXCEPT !.leaves = 50, !.embers = 30]
    ELSE IF nowHidden
         THEN [cfg EXCEPT !.stars = 50, !.particles = 10]
         ELSE [cfg EXCEPT !.stars = 200, !.particles = 25]

\* the state of the parts a specification does not follow
AuxIdle == branch = None /\ auto = None /\ konami = None

\* the page state of a specification that follows no page
PageIdle ==
    /\ hidden = FALSE /\ shown = None /\ loaded = FALSE /\ present = {}
    /\ built = None /\ raf = <<>> /\ timers = {} /\ error = <<>>
    /\ frames = 0 /\ frameDraws = None
    /\ leaves = <<>> /\ embers = <<>> /\ stars = <<>> /\ particles = <<>>
    /\ fireworks = <<>> /\ wishes = None /\ echoes = <<>> /\ tree = None

----------------------------------------------------------------------------
(* Arithmetic in thousandths *)

Mul(a, b) == (a * b) \div 1000

Px(n) == n * 1000

TwoPi == 6283

SinTable == <<0, 259, 500, 707, 866, 966, 1000, 966, 866, 707, 500, 259,
              0, -259, -500, -707, -866, -966, -1000, -966, -866, -707, -500, -259>>

\* Math.sin of an angle in thousandths of a radian, in thousandths
Sin(a) == SinTable[(((a % TwoPi) * 24) \div TwoPi) + 1]

\* the period and resolution of the random stream
RandPeriod == 64
RandMod == 8

\* Math.random(): the k-th draw, as a numerator over RandMod, in 0 .. RandMod-1
MathRandom(k) ==
    LET j == k % RandPeriod
    IN  (j * 5 + (j \div 8) * 3 + (j \div 3)) % RandMod

\* random(min, max) = Math.random() * (max - min) + min
random(min, max, k) == ((MathRandom(k) * (max - min)) \div RandMod) + min

\* randomInt(min, max) = Math.floor(random(min, max)), on integers
randomInt(min, max, k) == ((MathRandom(k) * (max - min)) \div RandMod) + min

\* lerp(start, end, t) = start + (end - start) * t
lerp(start, end, t) == start + Mul(end - start, t)

Advance(k, n) == (k + n) % RandPeriod

WindowSizes == {[width |-> 40, height |-> 30], [width |-> 90, height |-> 60],
                [width |-> 60, height |-> 400]}

----------------------------------------------------------------------------
(* Thanksgiving: Leaf *)

LeafResetDraws == 12

\* Leaf.reset(): twelve draws starting at k
LeafReset(c, k) ==
    [x |-> random(Px(-50), Px(c.width + 50), k),
     y |-> random(Px(-100), Px(-50), k + 1),
     size |-> random(Px(15), Px(35), k + 2),
     color |-> randomInt(0, 6, k + 3),
     rotation |-> random(0, TwoPi, k + 4),
     rotationSpeed |-> random(-50, 50, k + 5),
     vx |-> random(-1000, 1000, k + 6),
     vy |-> random(1000, 3000, k + 7),
     windPhase |-> random(0, TwoPi, k + 8),
     windFrequency |-> random(10, 30, k + 9),
     opacity |-> random(600, 1000, k + 10),
     depth |-> random(500, 1000, k + 11)]

\* the off-screen test of Leaf.update
LeafOffScreen(l, c) ==
    \/ l.y > Px(c.height + 50)
    \/ l.x < Px(-100)
    \/ l.x > Px(c.width + 100)

\* Leaf.update(time, wind) before its reset test
LeafMove(l, t, w) ==
    LET windEffect == Mul(Sin(t * l.windFrequency + l.windPhase), 500)
        turbulence == Mul(Sin(Mul(t * 20, l.windPhase)), 500)
    IN  [l EXCEPT !.x = l.x + Mul(l.vx + windEffect + w + turbulence, l.depth),
                  !.y = l.y + Mul(l.vy + 300, l.depth),
                  !.rotation = l.rotation + l.rotationSpeed]

LeafUpdateNoReset(l, t, w, c, k) == LeafMove(l, t, w)

\* Leaf.update(time, wind)
LeafUpdate(l, t, w, c, k) ==
    LET m == LeafMove(l, t, w)
    IN  IF LeafOffScreen(m, c) THEN LeafReset(c, k) ELSE m

\* whether Leaf.update(time, wind) calls reset
LeafResets(l, t, w, c) == LeafOffScreen(LeafMove(l, t, w), c)

----------------------------------------------------------------------------
(* Thanksgiving: Ember *)

EmberResetDraws == 9

\* Ember.reset()
EmberReset(c, k) ==
    [x |-> random(0, Px(c.width), k),
     y |-> random(Mul(Px(c.height), 500), Px(c.height), k + 1),
     size |-> random(Px(2), Px(5), k + 2),
     vx |-> random(-300, 300, k + 3),
     vy |-> random(-500, -1500, k + 4),
     opacity |-> random(300, 800, k + 5),
     flickerSpeed |-> random(50, 100, k + 6),
     flickerPhase |-> random(0, TwoPi, k + 7),
     life |-> 1000,
     decay |-> random(2, 5, k + 8)]

EmberMove(e, t) ==
    [e EXCEPT !.x = e.x + e.vx + Mul(Sin(t * 10 + e.flickerPhase), 300),
              !.y = e.y + e.vy,
              !.life = e.life - e.decay]

EmberExpired(e) == e.life <= 0 \/ e.y < 0

EmberUpdateNoReset(e, t, c, k) == EmberMove(e, t)

\* Ember.update(time)
EmberUpdate(e, t, c, k) ==
    LET m == EmberMove(e, t)
    IN  IF EmberExpired(m) THEN EmberReset(c, k) ELSE m

EmberResets(e, t) == EmberExpired(EmberMove(e, t))

EmberFlickerWide(e, t) == Mul(Sin(t * e.flickerSpeed + e.flickerPhase), 500) + 700

\* the flicker factor of Ember.draw(time)
EmberFlicker(e, t) == Mul(Sin(t * e.flickerSpeed + e.flickerPhase), 300) + 700

\* Ember.draw(time): the opacity it renders with
EmberDraw(e, t) ==
    LET flicker == EmberFlicker(e, t)
    IN  [flicker |-> flicker,
         currentOpacity |-> Mul(Mul(e.opacity, e.life), flicker),
         x |-> e.x, y |-> e.y]

----------------------------------------------------------------------------
(* New Year: AmbientParticle *)

AmbientResetDraws == 12

\* AmbientParticle.reset()
AmbientReset(c, k) ==
    [x |-> random(0, Px(c.width), k),
     y |-> random(Px(c.height), Px(c.height + 100), k + 1),
     size |-> random(Px(3), Px(8), k + 2),
     color |-> randomInt(0, 5, k + 3),
     type |-> randomInt(0, 3, k + 4),
     vx |-> random(-500, 500, k + 5),
     vy |-> random(-1000, -2000, k + 6),
     rotation |-> random(0, TwoPi, k + 7),
     rotationSpeed |-> random(-50, 50, k + 8),
     opacity |-> random(300, 800, k + 9),
     wobblePhase |-> random(0, TwoPi, k + 10),
     wobbleSpeed |-> random(20, 50, k + 11)]

AmbientMove(p) ==
    LET phase == p.wobblePhase + p.wobbleSpeed
    IN  [p EXCEPT !.wobblePhase = phase,
                  !.x = p.x + p.vx + Mul(Sin(phase), 500),
                  !.y = p.y + p.vy,
                  !.rotation = p.rotation + p.rotationSpeed]

AmbientGone(p) == p.y < Px(-50)

AmbientUpdateNoReset(p, c, k) == AmbientMove(p)

\* AmbientParticle.update(time)
AmbientUpdate(p, c, k) ==
    LET m == AmbientMove(p)
    IN  IF AmbientGone(m) THEN AmbientReset(c, k) ELSE m

AmbientResets(p) == AmbientGone(AmbientMove(p))

----------------------------------------------------------------------------
(* One particle of each recycling kind, advanced and drawn once per frame   *)
(* the way the systems' update and draw do it.                              *)

Bump(b) == IF b THEN 1 ELSE 0

ParticleInit ==
    /\ page = NoPage
    /\ \E seed \in 0 .. MaxSeed - 1, c \in WindowSizes :
          /\ canvas = c
          /\ leaf = [LeafReset(c, seed * 5) EXCEPT
                        !.y = random(Px(-c.height), Px(c.height), seed * 5 + 12)]
          /\ ember = EmberReset(c, seed * 5 + 13)
          /\ amb = [AmbientReset(c, seed * 5 + 22) EXCEPT
                       !.y = random(0, Px(c.height), seed * 5 + 34)]
          /\ rnd = Advance(seed * 5, 35)
    /\ time = 0
    /\ wind = 0
    /\ targetWind = 0
    /\ events = 0
    /\ drawn = None
    /\ recycles = [leaf |-> 0, ember |-> 0, amb |-> 0]
    /\ config = None
    /\ burst = None
    /\ PageIdle
    /\ AuxIdle

\* one animation frame: LeafSystem.update, EmberSystem.update and draw,
\* AmbientParticleSystem.update
ParticleFrame ==
    /\ time < MaxTicks
    /\ LET t == time + 1
           w == lerp(wind, targetWind, 10)
           rl == LeafResets(leaf, t, w, canvas)
           re == EmberResets(ember, t)
           ra == AmbientResets(amb)
           k1 == rnd
           k2 == IF rl THEN Advance(k1, LeafResetDraws) ELSE k1
           k3 == IF re THEN Advance(k2, EmberResetDraws) ELSE k2
           k4 == IF ra THEN Advance(k3, AmbientResetDraws) ELSE k3
       IN  /\ time' = t
           /\ wind' = w
           /\ leaf' = LeafUpdate(leaf, t, w, canvas, k1)
           /\ ember' = EmberUpdate(ember, t, canvas, k2)
           /\ drawn' = EmberDraw(ember', t)
           /\ amb' = AmbientUpdate(amb, canvas, k3)
           /\ rnd' = k4
           /\ recycles' = [leaf |-> recycles.leaf + Bump(rl),
                           ember |-> recycles.ember + Bump(re),
                           amb |-> recycles.amb + Bump(ra)]
    /\ UNCHANGED <<page, canvas, targetWind, events>>
    /\ UNCHANGED <<config, burst>>
    /\ UNCHANGED pageVars
    /\ UNCHANGED auxVars

\* the wind-gust interval of LeafSystem (every 3000 ms)
WindGust ==
    /\ events < MaxEvents
    /\ events' = events + 1
    /\ targetWind' = random(-2000, 2000, rnd)
    /\ rnd' = Advance(rnd, 1)
    /\ UNCHANGED <<page, canvas, time, wind, leaf, ember, amb, drawn, recycles>>
    /\ UNCHANGED <<config, burst>>
    /\ UNCHANGED pageVars
    /\ UNCHANGED auxVars

\* a window resize: the systems' resize() set the canvas size; no Leaf, Ember
\* or AmbientParticle is touched
ParticleResize ==
    /\ events < MaxEvents
    /\ events' = events + 1
    /\ \E c \in WindowSizes \ {canvas} : canvas' = c
    /\ UNCHANGED <<page, rnd, time, wind, targetWind, leaf, ember, amb, drawn, recycles>>
    /\ UNCHANGED <<config, burst>>
    /\ UNCHANGED pageVars
    /\ UNCHANGED auxVars

ParticleNext == ParticleFrame \/ WindGust \/ ParticleResize

SpecParticle == ParticleInit /\ [][ParticleNext]_vars

----------------------------------------------------------------------------
(* New Year: FireworkParticle and Firework *)

\* frames one burst is followed for
MaxBurstUpdates == 70
\* bursts constructed per behaviour
MaxLaunches == 2

Cos(a) == Sin(a + 1571)

FireworksGravity == 80
FireworksFriction == 980
FireworksFadeSpeed == 15
FireworkTrailLength == 5
FillerCount == 20

\* new FireworkParticle(x, y, color, velocity, size)
FireworkParticle(x, y, color, vx, vy, size) ==
    [x |-> x, y |-> y, color |-> color, vx |-> vx, vy |-> vy, size |-> size,
     opacity |-> 1000, trail |-> <<>>, trailLength |-> FireworkTrailLength]

FireworkParticleUpdateNoShift(p) ==
    LET vy == p.vy + FireworksGravity
    IN  [p EXCEPT !.trail = Append(p.trail, [x |-> p.x, y |-> p.y, opacity |-> p.opacity]),
                  !.x = p.x + p.vx,
                  !.y = p.y + p.vy,
                  !.vx = Mul(p.vx, FireworksFriction),
                  !.vy = Mul(vy, FireworksFriction),
                  !.opacity = p.opacity - FireworksFadeSpeed,
                  !.size = Mul(p.size, 980)]

\* FireworkParticle.update()
FireworkParticleUpdate(p) ==
    LET pushed == Append(p.trail, [x |-> p.x, y |-> p.y, opacity |-> p.opacity])
        trail == IF Len(pushed) > p.trailLength THEN Tail(pushed) ELSE pushed
        vy == p.vy + FireworksGravity
    IN  [p EXCEPT !.trail = trail,
                  !.x = p.x + p.vx,
                  !.y = p.y + p.vy,
                  !.vx = Mul(p.vx, FireworksFriction),
                  !.vy = Mul(vy, FireworksFriction),
                  !.opacity = p.opacity - FireworksFadeSpeed,
                  !.size = Mul(p.size, 980)]

\* FireworkParticle.isDead()
FireworkParticleIsDead(p) == p.opacity <= 0

\* the i-th spark of the ring loop of Firework.explode (i from 0), three draws
RingSpark(x, y, color, pc, i, k) ==
    LET angleStep == TwoPi \div pc
        angle == angleStep * i + random(-200, 200, k + 3 * i)
        speed == random(2000, 8000, k + 3 * i + 1)
        size == random(2000, 4000, k + 3 * i + 2)
    IN  FireworkParticle(x, y, color, Mul(Cos(angle), speed), Mul(Sin(angle), speed), size)

\* the i-th spark of the filler loop of Firework.explode (i from 0), four draws
FillerSpark(x, y, i, k) ==
    LET angle == random(0, TwoPi, k + 4 * i)
        speed == random(1000, 4000, k + 4 * i + 1)
        color == randomInt(0, 8, k + 4 * i + 2)
        size == random(1000, 3000, k + 4 * i + 3)
    IN  FireworkParticle(x, y, color, Mul(Cos(angle), speed), Mul(Sin(angle), speed), size)

FireworkExplodeOneShort(x, y, color, pc, k) ==
    [i \in 1 .. pc |-> RingSpark(x, y, color, pc, i - 1, k)]
        \o [i \in 1 .. FillerCount - 1 |-> FillerSpark(x, y, i - 1, k + 3 * pc)]

\* Firework.explode(): the particles it pushes, pc = CONFIG.fireworks.particleCount
FireworkExplode(x, y, color, pc, k) ==
    [i \in 1 .. pc |-> RingSpark(x, y, color, pc, i - 1, k)]
        \o [i \in 1 .. FillerCount |-> FillerSpark(x, y, i - 1, k + 3 * pc)]

\* the number of draws new Firework(x, y) takes
FireworkDraws(pc) == 1 + 3 * pc + 4 * FillerCount

\* new Firework(x, y)
Firework(x, y, pc, k) ==
    LET color == randomInt(0, 8, k)
    IN  [x |-> x, y |-> y, color |-> color,
         particles |-> FireworkExplode(x, y, color, pc, k + 1),
         updates |-> 0]

FireworkUpdateKeepsDead(f) ==
    [f EXCEPT !.particles = [i \in 1 .. Len(f.particles) |->
                                FireworkParticleUpdate(f.particles[i])],
              !.updates = f.updates + 1]

FireworkUpdateRelights(f) ==
    LET moved == [i \in 1 .. Len(f.particles) |-> FireworkParticleUpdate(f.particles[i])]
    IN  [f EXCEPT !.particles = IF f.particles = <<>>
                                  THEN FireworkExplode(f.x, f.y, f.color, 1, 0)
                                  ELSE SelectSeq(moved, LAMBDA p : ~FireworkParticleIsDead(p)),
                  !.updates = f.updates + 1]

\* Firework.update(); updates counts the calls made on this burst
FireworkUpdate(f) ==
    LET moved == [i \in 1 .. Len(f.particles) |-> FireworkParticleUpdate(f.particles[i])]
    IN  [f EXCEPT !.particles = SelectSeq(moved, LAMBDA p : ~FireworkParticleIsDead(p)),
                  !.updates = f.updates + 1]

\* Firework.isDead()
FireworkIsDead(f) == Len(f.particles) = 0

ClickPoints == {[x |-> 10, y |-> 10], [x |-> 35, y |-> 20]}

BurstInit ==
    /\ page = "newyear"
    /\ rnd \in 0 .. MaxSeed - 1
    /\ canvas \in WindowSizes
    /\ \E reduced \in BOOLEAN :
          config = IF reduced THEN ReducedMotion("newyear", InitialConfig("newyear"))
                              ELSE InitialConfig("newyear")
    /\ PageIdle
    /\ burst = None
    /\ time = 0
    /\ wind = 0
    /\ targetWind = 0
    /\ events = 0
    /\ leaf = None /\ ember = None /\ amb = None /\ drawn = None
    /\ recycles = None
    /\ AuxIdle

\* new Firework(x, y), as FireworksSystem.launch(x, y) constructs it
FireworkNew ==
    /\ events < MaxLaunches
    /\ IF burst = None THEN TRUE ELSE FireworkIsDead(burst)
    /\ \E pt \in ClickPoints :
          burst' = Firework(Px(pt.x), Px(pt.y), config.particleCount, rnd)
    /\ rnd' = Advance(rnd, FireworkDraws(config.particleCount))
    /\ events' = events + 1
    /\ UNCHANGED <<page, canvas, time, wind, targetWind, config>>
    /\ UNCHANGED partVars
    /\ UNCHANGED pageVars
    /\ UNCHANGED auxVars

\* one call of Firework.update() on the burst, dead or not
FireworkStep ==
    /\ burst # None
    /\ burst.updates < MaxBurstUpdates
    /\ burst' = FireworkUpdate(burst)
    /\ UNCHANGED <<page, rnd, canvas, time, wind, targetWind, events, config>>
    /\ UNCHANGED partVars
    /\ UNCHANGED pageVars
    /\ UNCHANGED auxVars

BurstNext == FireworkNew \/ FireworkStep

SpecBurst == BurstInit /\ [][BurstNext]_vars

----------------------------------------------------------------------------
(* New Year: Star and StarfieldSystem *)

StarResetDraws == 7

\* Star.reset(): the seven fields it assigns
StarReset(s, c, k) ==
    [s EXCEPT !.x = random(0, Px(c.width), k),
              !.y = random(0, Mul(Px(c.height), 700), k + 1),
              !.size = random(Px(1), Px(3), k + 2),
              !.color = randomInt(0, 5, k + 3),
              !.twinklePhase = random(0, TwoPi, k + 4),
              !.twinkleSpeed = random(10, 50, k + 5),
              !.baseOpacity = random(300, 1000, k + 6)]

\* new Star(canvas): opacity is not assigned before the first update
Star(c, k) ==
    StarReset([x |-> 0, y |-> 0, size |-> 0, color |-> 0, twinklePhase |-> 0,
               twinkleSpeed |-> 0, baseOpacity |-> 0,
               hasOpacity |-> FALSE, opacity |-> 0], c, k)

StarUpdateDrifts(s) ==
    LET phase == s.twinklePhase + s.twinkleSpeed
    IN  [s EXCEPT !.twinklePhase = phase,
                  !.hasOpacity = TRUE,
                  !.x = s.x + s.twinkleSpeed,
                  !.opacity = Mul(s.baseOpacity, 500 + Mul(500, Sin(phase)))]

\* Star.update(time)
StarUpdate(s) ==
    LET phase == s.twinklePhase + s.twinkleSpeed
    IN  [s EXCEPT !.twinklePhase = phase,
                  !.hasOpacity = TRUE,
                  !.opacity = Mul(s.baseOpacity, 500 + Mul(500, Sin(phase)))]

\* the loop of the StarfieldSystem constructor
NewStars(count, c, k) == [i \in 1 .. count |-> Star(c, k + StarResetDraws * (i - 1))]

StarfieldResizeRebuilds(ss, count, c, k) == NewStars(count, c, k)

\* StarfieldSystem.resize(): every star is reset; count is CONFIG.stars.count
StarfieldResize(ss, count, c, k) ==
    [i \in 1 .. Len(ss) |-> StarReset(ss[i], c, k + StarResetDraws * (i - 1))]

\* StarfieldSystem.update()
StarfieldUpdate(ss) == [i \in 1 .. Len(ss) |-> StarUpdate(ss[i])]

----------------------------------------------------------------------------
(* The recycling pools *)

\* the loop of the LeafSystem constructor: new Leaf, then leaf.y is redrawn
NewLeaves(count, c, k) ==
    [i \in 1 .. count |->
        [LeafReset(c, k + (LeafResetDraws + 1) * (i - 1)) EXCEPT
            !.y = random(Px(-c.height), Px(c.height),
                         k + (LeafResetDraws + 1) * (i - 1) + LeafResetDraws)]]

\* the loop of the EmberSystem constructor
NewEmbers(count, c, k) ==
    [i \in 1 .. count |-> EmberReset(c, k + EmberResetDraws * (i - 1))]

\* the loop of the AmbientParticleSystem constructor
NewParticles(count, c, k) ==
    [i \in 1 .. count |->
        [AmbientReset(c, k + (AmbientResetDraws + 1) * (i - 1)) EXCEPT
            !.y = random(0, Px(c.height),
                         k + (AmbientResetDraws + 1) * (i - 1) + AmbientResetDraws)]]

\* how many of the first n flags are set
Before(flags, n) == Cardinality({j \in 1 .. n : flags[j]})

\* the loop of LeafSystem.update(): the pool after it and the stream position;
\* each reset takes its draws after those of the leaves before it
LeavesUpdate(ls, t, w, c, k) ==
    LET r == [j \in 1 .. Len(ls) |-> LeafResets(ls[j], t, w, c)]
    IN  [pool |-> [i \in 1 .. Len(ls) |->
                      LeafUpdate(ls[i], t, w, c,
                                 Advance(k, LeafResetDraws * Before(r, i - 1)))],
         k |-> Advance(k, LeafResetDraws * Before(r, Len(ls)))]

\* the loop of EmberSystem.update()
EmbersUpdate(es, t, c, k) ==
    LET r == [j \in 1 .. Len(es) |-> EmberResets(es[j], t)]
    IN  [pool |-> [i \in 1 .. Len(es) |->
                      EmberUpdate(es[i], t, c,
                                  Advance(k, EmberResetDraws * Before(r, i - 1)))],
         k |-> Advance(k, EmberResetDraws * Before(r, Len(es)))]

\* the loop of AmbientParticleSystem.update()
ParticlesUpdate(ps, c, k) ==
    LET r == [j \in 1 .. Len(ps) |-> AmbientResets(ps[j])]
    IN  [pool |-> [i \in 1 .. Len(ps) |->
                      AmbientUpdate(ps[i], c,
                                    Advance(k, AmbientResetDraws * Before(r, i - 1)))],
         k |-> Advance(k, AmbientResetDraws * Before(r, Len(ps)))]

\* this.leaves.sort((a, b) => a.depth - b.depth) of LeafSystem.draw(): leaf i
\* goes after the shallower leaves and after the equally deep leaves that
\* were before it (Array.prototype.sort is stable)
SortByDepthDescending(ls) ==
    LET pos == [i \in 1 .. Len(ls) |->
                   Cardinality({j \in 1 .. Len(ls) :
                                   \/ ls[j].depth > ls[i].depth
                                   \/ (ls[j].depth = ls[i].depth /\ j < i)}) + 1]
    IN  [p \in 1 .. Len(ls) |-> ls[CHOOSE i \in 1 .. Len(ls) : pos[i] = p]]

SortByDepth(ls) ==
    LET pos == [i \in 1 .. Len(ls) |->
                   Cardinality({j \in 1 .. Len(ls) :
                                   \/ ls[j].depth < ls[i].depth
                                   \/ (ls[j].depth = ls[i].depth /\ j < i)}) + 1]
    IN  [p \in 1 .. Len(ls) |-> ls[CHOOSE i \in 1 .. Len(ls) : pos[i] = p]]

----------------------------------------------------------------------------
(* New Year: ShootingStar and WishesSystem *)

ShootingStarDraws == 3
StarTrailLength == 20
StarSpeed == 8

\* new ShootingStar(canvas, startX, startY, text)
ShootingStar(x, y, text, k) ==
    LET angle == random(-785, -524, k)
    IN  [x |-> x, y |-> y, text |-> text, angle |-> angle,
         vx |-> Cos(angle) * StarSpeed, vy |-> Sin(angle) * StarSpeed,
         trail |-> <<>>, trailLength |-> StarTrailLength, opacity |-> 1000,
         size |-> random(Px(3), Px(5), k + 1), color |-> randomInt(0, 4, k + 2)]

ShootingStarUpdateFadesAlways(s, c) ==
    LET pushed == Append(s.trail, [x |-> s.x, y |-> s.y, opacity |-> s.opacity])
        trail == IF Len(pushed) > s.trailLength THEN Tail(pushed) ELSE pushed
    IN  [s EXCEPT !.trail = trail, !.x = s.x + s.vx, !.y = s.y + s.vy,
                  !.opacity = s.opacity - 20]

\* ShootingStar.update(); c is the wishes canvas
ShootingStarUpdate(s, c) ==
    LET pushed == Append(s.trail, [x |-> s.x, y |-> s.y, opacity |-> s.opacity])
        trail == IF Len(pushed) > s.trailLength THEN Tail(pushed) ELSE pushed
        x == s.x + s.vx
        y == s.y + s.vy
    IN  [s EXCEPT !.trail = trail, !.x = x, !.y = y,
                  !.opacity = IF x > Mul(Px(c.width), 700) \/ y < Mul(Px(c.height), 100)
                              THEN s.opacity - 20 ELSE s.opacity]

\* ShootingStar.isDead()
ShootingStarIsDead(s, c) == s.opacity <= 0 \/ s.x > Px(c.width) \/ s.y < 0

WishesUpdateKeepsDead(w) ==
    [w EXCEPT !.stars = [i \in 1 .. Len(w.stars) |->
                            ShootingStarUpdate(w.stars[i], w.canvas)]]

\* WishesSystem.update()
WishesUpdate(w) ==
    LET moved == [i \in 1 .. Len(w.stars) |-> ShootingStarUpdate(w.stars[i], w.canvas)]
    IN  [w EXCEPT !.stars = SelectSeq(moved, LAMBDA s : ~ShootingStarIsDead(s, w.canvas))]

FireworksUpdateReverses(fs) ==
    LET kept == SelectSeq([i \in 1 .. Len(fs) |-> FireworkUpdate(fs[i])],
                          LAMBDA f : ~FireworkIsDead(f))
    IN  [i \in 1 .. Len(kept) |-> kept[Len(kept) + 1 - i]]

\* FireworksSystem.update()
FireworksUpdate(fs) ==
    SelectSeq([i \in 1 .. Len(fs) |-> FireworkUpdate(fs[i])],
              LAMBDA f : ~FireworkIsDead(f))

----------------------------------------------------------------------------
(* The two pages: bounds and inputs *)

\* animation frames per behaviour
MaxFrames == 2
\* canvases the New Year markup may lack
MaxMissing == 1
\* addWish / addLeaf calls per behaviour
MaxEntities == 2

NewYearCanvases == {"stars-canvas", "fireworks-canvas", "particles-canvas", "wishes-canvas"}
ThanksgivingCanvases == {"bg-canvas", "leaf-canvas", "ember-canvas", "tree-canvas"}

\* texts a user may submit, as sequences of characters
Texts == {<<>>, <<" ", " ">>, <<" ", "J", "o", "y">>}

IsSpace(ch) == ch \in {" ", "\t", "\n"}

RECURSIVE TrimStart(_)
TrimStart(t) == IF t # <<>> /\ IsSpace(Head(t)) THEN TrimStart(Tail(t)) ELSE t

RECURSIVE TrimEnd(_)
TrimEnd(t) ==
    IF t # <<>> /\ IsSpace(t[Len(t)]) THEN TrimEnd(SubSeq(t, 1, Len(t) - 1)) ELSE t

\* String.prototype.trim()
Trim(t) == TrimEnd(TrimStart(t))

FrameCallsDrawFirst(systems) ==
    [i \in 1 .. 2 * Len(systems) |->
        [system |-> systems[(i + 1) \div 2],
         call |-> IF i % 2 = 1 THEN "draw" ELSE "update"]]

\* the calls App.animate completes on the systems it reaches, in the order
\* of its statements
FrameCalls(systems) ==
    [i \in 1 .. 2 * Len(systems) |->
        [system |-> systems[(i + 1) \div 2],
         call |-> IF i % 2 = 1 THEN "update" ELSE "draw"]]

\* calls lists the update and draw calls a frame completed
NoDraws == [starfield |-> 0, fireworks |-> 0, particles |-> 0, wishes |-> 0,
            leaves |-> 0, embers |-> 0, tree |-> 0, calls |-> <<>>]

\* the size a canvas element has before any resize() sets it
DefaultCanvas == [width |-> 300, height |-> 150]

----------------------------------------------------------------------------
(* Thanksgiving: GratitudeTree *)

AddLeafDraws == 4

TreeDrawOvershoots(tr) ==
    [tr EXCEPT !.gratitudeLeaves =
                   [i \in 1 .. Len(tr.gratitudeLeaves) |->
                       [tr.gratitudeLeaves[i] EXCEPT
                           !.size = lerp(tr.gratitudeLeaves[i].size,
                                         tr.gratitudeLeaves[i].targetSize, 1100),
                           !.opacity = lerp(tr.gratitudeLeaves[i].opacity, 1000, 1100)]],
               !.animationFrame = tr.animationFrame + 1]

TreeDrawExpires(tr) ==
    [tr EXCEPT !.gratitudeLeaves =
                   SelectSeq([i \in 1 .. Len(tr.gratitudeLeaves) |->
                                 [tr.gratitudeLeaves[i] EXCEPT
                                     !.size = lerp(tr.gratitudeLeaves[i].size,
                                                   tr.gratitudeLeaves[i].targetSize, 100),
                                     !.opacity = lerp(tr.gratitudeLeaves[i].opacity,
                                                      1000, 100)]],
                             LAMBDA l : l.opacity < 500),
               !.animationFrame = tr.animationFrame + 1]

\* GratitudeTree.draw(): the easing of the gratitude leaves and the frame
\* counter.  The strokes of drawBranch paint only.
TreeDraw(tr) ==
    [tr EXCEPT !.gratitudeLeaves =
                   [i \in 1 .. Len(tr.gratitudeLeaves) |->
                       [tr.gratitudeLeaves[i] EXCEPT
                           !.size = lerp(tr.gratitudeLeaves[i].size,
                                         tr.gratitudeLeaves[i].targetSize, 100),
                           !.opacity = lerp(tr.gratitudeLeaves[i].opacity, 1000, 100)]],
               !.animationFrame = tr.animationFrame + 1]

RECURSIVE TreeDrawTimes(_, _)
TreeDrawTimes(tr, n) == IF n = 0 THEN tr ELSE TreeDrawTimes(TreeDraw(tr), n - 1)

\* GratitudeTree.addLeaf(text, x, y): the entry it pushes
AddLeaf(tr, text, x, y, k) ==
    [tr EXCEPT !.gratitudeLeaves = Append(tr.gratitudeLeaves,
        [text |-> text, x |-> x, y |-> y, size |-> 0,
         targetSize |-> random(Px(30), Px(50), k),
         rotation |-> random(-300, 300, k + 1),
         color |-> randomInt(0, 7, k + 2),
         opacity |-> 0,
         swayPhase |-> random(0, TwoPi, k + 3)])]

\* the add-leaf button handler of App.setupGratitudeInput: what it passes on
AddButtonText(value) == Trim(value)

----------------------------------------------------------------------------
(* New Year: App.animate and the wishes *)

AddWishUncounted(w, text, x, y, k) ==
    [w EXCEPT !.stars = Append(w.stars, ShootingStar(x, y, text, k))]

\* WishesSystem.addWish(text, x, y): the star pushed and the counter
AddWish(w, text, x, y, k) ==
    [w EXCEPT !.stars = Append(w.stars, ShootingStar(x, y, text, k)),
              !.wishCount = w.wishCount + 1]

\* App.animate() of the New Year page, up to its requestAnimationFrame call:
\* the systems after it, the exception it threw if any, and the draws made
NewYearAnimate(pr, ss, fs, ps, w, c, k) ==
    IF "stars-canvas" \notin pr
    THEN [stars |-> ss, fireworks |-> fs, particles |-> ps, wishes |-> w, k |-> k,
          thrown |-> <<"starfield.update">>, draws |-> NoDraws]
    ELSE IF "fireworks-canvas" \notin pr
    THEN [stars |-> StarfieldUpdate(ss), fireworks |-> fs, particles |-> ps,
          wishes |-> w, k |-> k,
          thrown |-> <<"fireworks.update">>,
          draws |-> [NoDraws EXCEPT !.starfield = 1,
                                    !.calls = FrameCalls(<<"starfield">>)]]
    ELSE IF "particles-canvas" \notin pr
    THEN [stars |-> StarfieldUpdate(ss), fireworks |-> FireworksUpdate(fs),
          particles |-> ps, wishes |-> w, k |-> k,
          thrown |-> <<"particles.update">>,
          draws |-> [NoDraws EXCEPT !.starfield = 1, !.fireworks = 1,
                                    !.calls = FrameCalls(<<"starfield", "fireworks">>)]]
    ELSE LET pu == ParticlesUpdate(ps, c, k)
         IN  IF "wishes-canvas" \notin pr
             THEN [stars |-> StarfieldUpdate(ss), fireworks |-> FireworksUpdate(fs),
                   particles |-> pu.pool, wishes |-> w, k |-> pu.k,
                   thrown |-> <<"wishes.update">>,
                   draws |-> [NoDraws EXCEPT !.starfield = 1, !.fireworks = 1,
                                             !.particles = 1,
                                             !.calls = FrameCalls(<<"starfield",
                                                 "fireworks", "particles">>)]]
             ELSE [stars |-> StarfieldUpdate(ss), fireworks |-> FireworksUpdate(fs),
                   particles |-> pu.pool, wishes |-> WishesUpdate(w), k |-> pu.k,
                   thrown |-> <<>>,
                   draws |-> [NoDraws EXCEPT !.starfield = 1, !.fireworks = 1,
                                             !.particles = 1, !.wishes = 1,
                                             !.calls = FrameCalls(<<"starfield",
                                                 "fireworks", "particles", "wishes">>)]]

\* App.animate() of the Thanksgiving page, up to its requestAnimationFrame call
ThanksgivingAnimate(ls, es, t, w, c, k) ==
    LET lu == LeavesUpdate(ls, t, w, c, k)
        eu == EmbersUpdate(es, t, c, lu.k)
    IN  [leaves |-> SortByDepth(lu.pool), embers |-> eu.pool, k |-> eu.k,
         draws |-> [NoDraws EXCEPT !.leaves = 1, !.embers = 1,
                                   !.calls = FrameCalls(<<"leaves", "embers">>)]]

----------------------------------------------------------------------------
(* The page: from the end of the script to the running animation loop *)

Canvases(pg) == IF pg = "thanksgiving" THEN ThanksgivingCanvases ELSE NewYearCanvases

\* the window sizes the pages are opened at and resized to
PageSizes == {c \in WindowSizes : c.height < 100}

\* where the input modal is opened from
ModalPoints == {pt \in ClickPoints : pt.x < 20}

\* the state when the script has run: CONFIG written by the reduced-motion
\* check, the listeners registered, DOMContentLoaded not yet fired
Init ==
    /\ page \in {"thanksgiving", "newyear"}
    /\ rnd \in 0 .. MaxSeed - 1
    /\ canvas \in PageSizes
    /\ \E reduced \in BOOLEAN :
          config = IF reduced THEN ReducedMotion(page, InitialConfig(page))
                              ELSE InitialConfig(page)
    /\ present \in {pr \in SUBSET Canvases(page) :
                      Cardinality(Canvases(page) \ pr)
                          <= IF page = "newyear" THEN MaxMissing ELSE 0}
    /\ hidden = FALSE /\ shown = None /\ loaded = FALSE
    /\ built = None /\ raf = <<>> /\ timers = {} /\ error = <<>>
    /\ frames = 0 /\ frameDraws = None
    /\ leaves = <<>> /\ embers = <<>> /\ stars = <<>> /\ particles = <<>>
    /\ fireworks = <<>> /\ wishes = None /\ echoes = <<>> /\ tree = None
    /\ time = 0 /\ wind = 0 /\ targetWind = 0 /\ events = 0
    /\ leaf = None /\ ember = None /\ amb = None /\ drawn = None /\ recycles = None
    /\ burst = None
    /\ AuxIdle

\* the visibilitychange listener
VisibilityChange ==
    /\ hidden' = ~hidden
    /\ config' = VisibilityHandler(page, config, ~hidden)
    /\ shown' = IF ~hidden THEN config ELSE shown
    /\ UNCHANGED <<page, rnd, canvas, time, wind, targetWind, events, burst>>
    /\ UNCHANGED partVars
    /\ UNCHANGED <<loaded, present, built, raf, timers, error, frames, frameDraws,
                   leaves, embers, stars, particles, fireworks, wishes, echoes, tree>>
    /\ UNCHANGED auxVars

\* DOMContentLoaded on the Thanksgiving page: new App(), App.init() and its
\* first animate()
ThanksgivingLoaded ==
    /\ page = "thanksgiving"
    /\ ~loaded
    /\ loaded' = TRUE
    /\ LET ls == NewLeaves(config.leaves, canvas, rnd)
           k1 == Advance(rnd, (LeafResetDraws + 1) * config.leaves)
           es == NewEmbers(config.embers, canvas, k1)
           k2 == Advance(k1, EmberResetDraws * config.embers)
           a == ThanksgivingAnimate(ls, es, 1, lerp(0, 0, 10), canvas, k2)
       IN  /\ leaves' = a.leaves
           /\ embers' = a.embers
           /\ rnd' = a.k
           /\ frameDraws' = [a.draws EXCEPT !.tree = 2]
    /\ built' = config
    /\ time' = 1
    /\ tree' = [gratitudeLeaves |-> <<>>, animationFrame |-> 2]
    /\ raf' = <<"treeDraw", "treeDraw", "animate">>
    /\ UNCHANGED <<page, canvas, wind, targetWind, events, config, burst>>
    /\ UNCHANGED partVars
    /\ UNCHANGED <<hidden, shown, present, timers, error, frames,
                   stars, particles, fireworks, wishes, echoes>>
    /\ UNCHANGED auxVars

\* DOMContentLoaded on the New Year page: new App(), App.init() and its first
\* animate()
NewYearLoaded ==
    /\ page = "newyear"
    /\ ~loaded
    /\ loaded' = TRUE
    /\ LET hasStars == "stars-canvas" \in present
           hasParticles == "particles-canvas" \in present
           ss == IF hasStars THEN NewStars(config.stars, canvas, rnd) ELSE <<>>
           k1 == IF hasStars THEN Advance(rnd, StarResetDraws * config.stars) ELSE rnd
           ps == IF hasParticles THEN NewParticles(config.particles, canvas, k1) ELSE <<>>
           k2 == IF hasParticles
                 THEN Advance(k1, (AmbientResetDraws + 1) * config.particles) ELSE k1
           w == [stars |-> <<>>, wishCount |-> 0, canvas |-> DefaultCanvas]
           a == NewYearAnimate(present, ss, <<>>, ps, w, canvas, k2)
       IN  /\ stars' = a.stars
           /\ fireworks' = a.fireworks
           /\ particles' = a.particles
           /\ wishes' = a.wishes
           /\ rnd' = a.k
           /\ frameDraws' = a.draws
           /\ error' = error \o a.thrown
           /\ raf' = (IF "wishes-canvas" \in present THEN <<"wishesResize">> ELSE <<>>)
                        \o <<"audioViz">>
                        \o (IF a.thrown = <<>> THEN <<"animate">> ELSE <<>>)
    /\ built' = config
    /\ time' = 1
    /\ timers' = {[fn |-> "initialLaunch"]}
    /\ UNCHANGED <<page, canvas, wind, targetWind, events, config, burst>>
    /\ UNCHANGED partVars
    /\ UNCHANGED <<hidden, shown, present, frames, leaves, embers, echoes, tree>>
    /\ UNCHANGED auxVars

Count(seq, x) == Cardinality({i \in 1 .. Len(seq) : seq[i] = x})

\* an animation frame of the Thanksgiving page: the browser runs every pending
\* callback, and each arms itself again
ThanksgivingFrame ==
    /\ page = "thanksgiving"
    /\ loaded
    /\ frames < MaxFrames
    /\ frames' = frames + 1
    /\ LET n == Count(raf, "treeDraw")
           t == time + 1
           w == lerp(wind, targetWind, 10)
           a == ThanksgivingAnimate(leaves, embers, t, w, canvas, rnd)
       IN  /\ tree' = TreeDrawTimes(tree, n)
           /\ time' = t
           /\ wind' = w
           /\ leaves' = a.leaves
           /\ embers' = a.embers
           /\ rnd' = a.k
           /\ frameDraws' = [a.draws EXCEPT !.tree = n]
    /\ UNCHANGED <<page, canvas, targetWind, events, config, burst>>
    /\ UNCHANGED partVars
    /\ UNCHANGED <<hidden, shown, loaded, present, built, raf, timers, error,
                   stars, particles, fireworks, wishes, echoes>>
    /\ UNCHANGED auxVars

\* an animation frame of the New Year page
NewYearFrame ==
    /\ page = "newyear"
    /\ loaded
    /\ frames < MaxFrames
    /\ frames' = frames + 1
    /\ LET w == IF Count(raf, "wishesResize") > 0
                THEN [wishes EXCEPT !.canvas = canvas] ELSE wishes
           a == NewYearAnimate(present, stars, fireworks, particles, w, canvas, rnd)
       IN  IF Count(raf, "animate") > 0
           THEN /\ stars' = a.stars
                /\ fireworks' = a.fireworks
                /\ particles' = a.particles
                /\ wishes' = a.wishes
                /\ rnd' = a.k
                /\ time' = time + 1
                /\ frameDraws' = a.draws
                /\ error' = error \o a.thrown
                /\ raf' = SelectSeq(raf, LAMBDA cb :
                              cb = "audioViz" \/ (cb = "animate" /\ a.thrown = <<>>))
           ELSE /\ wishes' = w
                /\ frameDraws' = NoDraws
                /\ raf' = SelectSeq(raf, LAMBDA cb : cb = "audioViz")
                /\ UNCHANGED <<stars, fireworks, particles, rnd, time, error>>
    /\ UNCHANGED <<page, canvas, wind, targetWind, events, config, burst>>
    /\ UNCHANGED partVars
    /\ UNCHANGED <<hidden, shown, loaded, present, built, timers, leaves, embers,
                   echoes, tree>>
    /\ UNCHANGED auxVars

\* the window's resize event: the resize listeners of the constructed systems
Resize ==
    /\ loaded
    /\ events < MaxEvents
    /\ events' = events + 1
    /\ \E c \in PageSizes \ {canvas} :
          /\ canvas' = c
          /\ IF page = "newyear" /\ "stars-canvas" \in present
             THEN /\ stars' = StarfieldResize(stars, config.stars, c, rnd)
                  /\ rnd' = Advance(rnd, StarResetDraws * Len(stars))
             ELSE UNCHANGED <<stars, rnd>>
          /\ wishes' = IF page = "newyear" /\ "wishes-canvas" \in present
                       THEN [wishes EXCEPT !.canvas = c] ELSE wishes
    /\ IF page = "thanksgiving"
       THEN /\ tree' = TreeDraw(tree)
            /\ raf' = Append(raf, "treeDraw")
       ELSE UNCHANGED <<tree, raf>>
    /\ UNCHANGED <<page, time, wind, targetWind, config, burst>>
    /\ UNCHANGED partVars
    /\ UNCHANGED <<hidden, shown, loaded, present, built, timers, error, frames,
                   frameDraws, leaves, embers, particles, fireworks, echoes>>
    /\ UNCHANGED auxVars

\* the wind-gust interval of the LeafSystem constructor
PageWindGust ==
    /\ page = "thanksgiving"
    /\ loaded
    /\ events < MaxEvents
    /\ events' = events + 1
    /\ targetWind' = random(-2000, 2000, rnd)
    /\ rnd' = Advance(rnd, 1)
    /\ UNCHANGED <<page, canvas, time, wind, config, burst>>
    /\ UNCHANGED partVars
    /\ UNCHANGED pageVars
    /\ UNCHANGED auxVars

BlankText(text) == Trim(text) = <<>>

\* an entity with the number of the call that created it; the number is kept
\* by the model only, to tell the entities of a collection apart
Tagged(entity, id) ==
    [f \in DOMAIN entity \cup {"id"} |-> IF f = "id" THEN id ELSE entity[f]]

TagLast(seq, id) == [seq EXCEPT ![Len(seq)] = Tagged(seq[Len(seq)], id)]

\* a number above those of the entities a collection holds
NextId(seq) ==
    IF seq = <<>> THEN 1
    ELSE 1 + CHOOSE n \in {seq[i].id : i \in 1 .. Len(seq)} :
                 \A i \in 1 .. Len(seq) : seq[i].id <= n

\* FireworksSystem.launchRandom(): the fireworks list after it
LaunchRandom(fs, c, pc, k) ==
    Append(fs,
           Tagged(Firework(random(Mul(Px(c.width), 200), Mul(Px(c.width), 800), k),
                           random(Mul(Px(c.height), 100), Mul(Px(c.height), 500), k + 1),
                           pc, k + 2),
                  NextId(fs)))

\* the two launch timers of App.init: the first arms the second
LaunchTimer ==
    /\ \E tm \in timers :
          /\ tm.fn \in {"initialLaunch", "secondLaunch"}
          /\ IF "fireworks-canvas" \in present
             THEN /\ fireworks' = LaunchRandom(fireworks, canvas, config.particleCount, rnd)
                  /\ rnd' = Advance(rnd, 2 + FireworkDraws(config.particleCount))
                  /\ timers' = (timers \ {tm}) \cup
                                  (IF tm.fn = "initialLaunch"
                                   THEN {[fn |-> "secondLaunch"]} ELSE {})
                  /\ UNCHANGED error
             ELSE /\ error' = Append(error, "fireworks.launchRandom")
                  /\ timers' = timers \ {tm}
                  /\ UNCHANGED <<fireworks, rnd>>
    /\ UNCHANGED <<page, canvas, time, wind, targetWind, events, config, burst>>
    /\ UNCHANGED partVars
    /\ UNCHANGED <<hidden, shown, loaded, present, built, raf, frames, frameDraws,
                   leaves, embers, stars, particles, wishes, echoes, tree>>
    /\ UNCHANGED auxVars

\* WishesSystem.addWish(text, x, y) with createFloatingWish, on the page state
\* milliseconds a floating echo stays in the document
GratitudeEchoDelay == 15000
WishEchoDelay == 10000

DoAddWish(text, pt) ==
    /\ wishes' = [AddWish(wishes, text, Px(pt.x), Px(pt.y), rnd) EXCEPT
                     !.stars = TagLast(@, wishes.wishCount + 1)]
    /\ rnd' = Advance(rnd, ShootingStarDraws)
    /\ echoes' = Append(echoes, [id |-> wishes.wishCount + 1, text |-> text])
    /\ timers' = timers \cup {[fn |-> "removeEcho", id |-> wishes.wishCount + 1,
                               delay |-> WishEchoDelay]}

\* WishInputHandler.releaseWish(): the modal was opened by a click on the
\* wishes canvas at pt, value is the text typed
ReleaseWish ==
    /\ page = "newyear"
    /\ loaded
    /\ "wishes-canvas" \in present
    /\ wishes.wishCount < MaxEntities
    /\ \E value \in Texts, pt \in ModalPoints :
          IF Trim(value) = <<>>
          THEN UNCHANGED <<wishes, rnd, echoes, timers>>
          ELSE DoAddWish(Trim(value), pt)
    /\ UNCHANGED <<page, canvas, time, wind, targetWind, events, config, burst>>
    /\ UNCHANGED partVars
    /\ UNCHANGED <<hidden, shown, loaded, present, built, raf, error, frames,
                   frameDraws, leaves, embers, stars, particles, fireworks, tree>>
    /\ UNCHANGED auxVars

\* addWish(text, x, y) called as the exposed operation, with any text
AddWishCall ==
    /\ page = "newyear"
    /\ loaded
    /\ Len(error) < MaxEntities
    /\ \E text \in Texts, pt \in ModalPoints :
          IF "wishes-canvas" \in present
          THEN /\ wishes.wishCount < MaxEntities
               /\ DoAddWish(text, pt)
               /\ UNCHANGED error
          ELSE /\ error' = Append(error, "wishes.addWish")
               /\ UNCHANGED <<wishes, rnd, echoes, timers>>
    /\ UNCHANGED <<page, canvas, time, wind, targetWind, events, config, burst>>
    /\ UNCHANGED partVars
    /\ UNCHANGED <<hidden, shown, loaded, present, built, raf, frames,
                   frameDraws, leaves, embers, stars, particles, fireworks, tree>>
    /\ UNCHANGED auxVars

\* GratitudeTree.addLeaf(text, x, y) with createFloatingGratitude
DoAddLeaf(text, pt) ==
    /\ tree' = [AddLeaf(tree, text, Px(pt.x), Px(pt.y), rnd) EXCEPT
                   !.gratitudeLeaves = TagLast(@, Len(tree.gratitudeLeaves) + 1)]
    /\ rnd' = Advance(rnd, AddLeafDraws)
    /\ echoes' = Append(echoes, [id |-> Len(tree.gratitudeLeaves) + 1, text |-> text])
    /\ timers' = timers \cup {[fn |-> "removeEcho", id |-> Len(tree.gratitudeLeaves) + 1,
                               delay |-> GratitudeEchoDelay]}

\* the add-leaf button of App.setupGratitudeInput: the modal was opened by a
\* click on the tree canvas at pt, value is the text typed
AddLeafButton ==
    /\ page = "thanksgiving"
    /\ loaded
    /\ Len(tree.gratitudeLeaves) < MaxEntities
    /\ \E value \in Texts, pt \in ModalPoints :
          IF AddButtonText(value) = <<>>
          THEN UNCHANGED <<tree, rnd, echoes, timers>>
          ELSE DoAddLeaf(AddButtonText(value), pt)
    /\ UNCHANGED <<page, canvas, time, wind, targetWind, events, config, burst>>
    /\ UNCHANGED partVars
    /\ UNCHANGED <<hidden, shown, loaded, present, built, raf, error, frames,
                   frameDraws, leaves, embers, stars, particles, fireworks, wishes>>
    /\ UNCHANGED auxVars

\* addLeaf(text, x, y) called as the exposed operation, with any text
AddLeafCall ==
    /\ page = "thanksgiving"
    /\ loaded
    /\ Len(tree.gratitudeLeaves) < MaxEntities
    /\ \E text \in Texts, pt \in ModalPoints : DoAddLeaf(text, pt)
    /\ UNCHANGED <<page, canvas, time, wind, targetWind, events, config, burst>>
    /\ UNCHANGED partVars
    /\ UNCHANGED <<hidden, shown, loaded, present, built, raf, error, frames,
                   frameDraws, leaves, embers, stars, particles, fireworks, wishes>>
    /\ UNCHANGED auxVars

RemoveKeepsEcho(es, id) == es

\* leaf.remove() / wish.remove(): the echoes the document is left with
Remove(es, id) == SelectSeq(es, LAMBDA e : e.id # id)

\* the fire-once timer of a floating echo; the timers of a page have one
\* delay and fire in the order they were set
EchoTimeout ==
    /\ \E tm \in timers :
          /\ tm.fn = "removeEcho"
          /\ \A other \in timers : other.fn = "removeEcho" => tm.id <= other.id
          /\ timers' = timers \ {tm}
          /\ echoes' = Remove(echoes, tm.id)
    /\ UNCHANGED <<page, rnd, canvas, time, wind, targetWind, events, config, burst>>
    /\ UNCHANGED partVars
    /\ UNCHANGED <<hidden, shown, loaded, present, built, raf, error, frames,
                   frameDraws, leaves, embers, stars, particles, fireworks, wishes,
                   tree>>
    /\ UNCHANGED auxVars

Next ==
    \/ VisibilityChange
    \/ ThanksgivingLoaded
    \/ NewYearLoaded
    \/ ThanksgivingFrame
    \/ NewYearFrame
    \/ Resize
    \/ PageWindGust
    \/ LaunchTimer

\* the page from the end of its script on: loading, frames, timers, resizes
\* and visibility changes
Spec == Init /\ [][Next]_vars

\* the page with a user who submits texts
EntitiesNext ==
    \/ ThanksgivingLoaded
    \/ NewYearLoaded
    \/ ThanksgivingFrame
    \/ NewYearFrame
    \/ ReleaseWish
    \/ AddWishCall
    \/ AddLeafButton
    \/ AddLeafCall
    \/ EchoTimeout

SpecEntities == Init /\ [][EntitiesNext]_vars


----------------------------------------------------------------------------
(* Recycling (checked under SpecParticle) *)

LeafInside(l, c) == ~LeafOffScreen(l, c)

LeafInSpawn(l, c) ==
    /\ l.x >= Px(-50) /\ l.x <= Px(c.width + 50)
    /\ l.y >= Px(-100) /\ l.y <= Px(-50)

EmberInside(e) == ~EmberExpired(e)

EmberInSpawn(e, c) ==
    /\ e.x >= 0 /\ e.x <= Px(c.width)
    /\ 2 * e.y >= Px(c.height) /\ e.y <= Px(c.height)
    /\ e.life = 1000

AmbientInside(p) == ~AmbientGone(p)

AmbientInSpawn(p, c) ==
    /\ p.x >= 0 /\ p.x <= Px(c.width)
    /\ p.y >= Px(c.height) /\ p.y <= Px(c.height + 100)

\* C5: an update that moves a leaf, an ember or an ambient particle across
\* its recycle boundary resets it within that same update: after every update
\* the particle that crossed sits in its spawn bounds (an ember with life 1),
\* every particle is inside its recycle boundary or in its spawn bounds, and
\* the particle is still there.
C5_RecycledWithinUpdate ==
    [][time' = time + 1 =>
        /\ leaf' # None /\ ember' # None /\ amb' # None
        /\ LeafResets(leaf, time', wind', canvas) => LeafInSpawn(leaf', canvas)
        /\ EmberResets(ember, time') => EmberInSpawn(ember', canvas)
        /\ AmbientResets(amb) => AmbientInSpawn(amb', canvas)
        /\ LeafInside(leaf', canvas) \/ LeafInSpawn(leaf', canvas)
        /\ EmberInside(ember') \/ EmberInSpawn(ember', canvas)
        /\ AmbientInside(amb') \/ AmbientInSpawn(amb', canvas)
        /\ LeafInside(leaf', canvas) /\ EmberInside(ember') /\ AmbientInside(amb')]_vars

\* a leaf, an ember and an ambient particle have each crossed their boundary
\* and been reset by update
C5_Witness ==
    /\ recycles # None
    /\ recycles.leaf >= 1 /\ recycles.ember >= 1 /\ recycles.amb >= 1
    /\ LeafInSpawn(leaf, canvas) /\ events = 1

\* C10: at every draw the opacity an ember is rendered with,
\* opacity * life * flicker, is not negative and is at most opacity * life:
\* the flicker factor is within [0.4, 1] and life within (0, 1].
C10_EmberOpacityBounded ==
    drawn # None =>
        /\ drawn.flicker >= 400 /\ drawn.flicker <= 1000
        /\ ember.life > 0 /\ ember.life <= 1000
        /\ drawn.currentOpacity >= 0
        /\ drawn.currentOpacity <= Mul(ember.opacity, ember.life)

\* an ember that has been recycled is drawn at the peak of its flicker, and
\* one at the trough
C10_Witness ==
    /\ drawn # None
    /\ drawn.flicker = 1000
    /\ ember.life < 1000
    /\ recycles.ember >= 1
    /\ drawn.currentOpacity = Mul(ember.opacity, ember.life)

----------------------------------------------------------------------------
(* Firework bursts (checked under SpecBurst) *)

\* C7: immediately after construction a burst holds exactly
\* CONFIG.fireworks.particleCount + 20 sparks (ring count + filler count), all
\* at the burst origin with opacity 1.
C7_SparkCount ==
    (burst # None /\ burst.updates = 0) =>
        /\ Len(burst.particles) = config.particleCount + FillerCount
        /\ \A i \in 1 .. Len(burst.particles) :
              /\ burst.particles[i].x = burst.x
              /\ burst.particles[i].y = burst.y
              /\ burst.particles[i].opacity = 1000
              /\ burst.particles[i].trail = <<>>

\* a second burst, launched at the normal particle count, before any update
C7_Witness ==
    /\ burst # None
    /\ burst.updates = 0
    /\ events = 2
    /\ config.particleCount = 80
    /\ Len(burst.particles) = 100

\* C8: a burst is dead exactly when its spark set is empty, which is so
\* exactly from the first update count n with 1 - n * fadeSpeed <= 0 on; the
\* sparks left after an update all have opacity > 0, and no update adds a
\* spark.
C8_DeadExactlyWhenFaded ==
    /\ [](burst # None =>
            /\ FireworkIsDead(burst) <=> (1000 - burst.updates * FireworksFadeSpeed <= 0)
            /\ FireworkIsDead(burst) <=> (burst.particles = <<>>)
            /\ \A i \in 1 .. Len(burst.particles) :
                  burst.particles[i].opacity = 1000 - burst.updates * FireworksFadeSpeed
            /\ burst.updates > 0 =>
                  \A i \in 1 .. Len(burst.particles) : burst.particles[i].opacity > 0)
    /\ [][(burst # None /\ burst' # None /\ burst'.updates = burst.updates + 1) =>
            Len(burst'.particles) <= Len(burst.particles)]_vars

\* the burst at the update that empties it: the 67th
C8_Witness ==
    /\ burst # None
    /\ burst.updates = 67
    /\ FireworkIsDead(burst)

\* C9: Firework.update() on a burst whose spark set is empty leaves the spark
\* set empty and the burst dead.
C9_DeadBurstStaysDead ==
    [][(burst # None /\ FireworkIsDead(burst)
            /\ burst' # None /\ burst'.updates = burst.updates + 1) =>
          (burst'.particles = <<>> /\ FireworkIsDead(burst'))]_vars

\* a dead burst that has been updated three more times
C9_Witness ==
    /\ burst # None
    /\ FireworkIsDead(burst)
    /\ burst.updates = 70

-----------------------------------------------------------------------------
(* Thanksgiving: GratitudeTree.drawBranch *)

\* heights of the tree canvas the trunk is drawn for
MaxTreeHeight == 400

BranchLength == 700
BranchShrink == 700
MinLength == 10
MinThickness == 1
TrunkThickness == 6
MiddleShrink == 800
MiddleThickness == 2

TreeHeights == {h \in {12, 30, 60, 400} : h <= MaxTreeHeight}

\* the call draw() makes: drawBranch(trunkX, trunkY, height * 0.4, -PI/2, 6)
Trunk(h) == [length |-> Mul(Px(h), 400), thickness |-> Px(TrunkThickness)]

\* the starting lengths and thicknesses drawBranch is run with
BranchStarts ==
    {Trunk(h) : h \in TreeHeights}
        \cup {[length |-> Px(24), thickness |-> 1500],
              [length |-> Px(24), thickness |-> 500]}

BranchEndsLate(length, thickness) == length < Px(1) \/ thickness < Px(MinThickness)

\* the test at the head of drawBranch: the branch ends in a leaf
BranchEnds(length, thickness) ==
    length < Px(MinLength) \/ thickness < Px(MinThickness)

\* an activation of drawBranch: its arguments, its depth below the first
\* call and the place it has reached.  The position and the angle only
\* steer the strokes.
BranchCall(length, thickness, depth) ==
    [length |-> length, thickness |-> thickness, depth |-> depth, pc |-> "enter"]

\* the two side branches drawBranch always draws
SideBranch(f) ==
    BranchCall(Mul(f.length, BranchLength), Mul(f.thickness, BranchShrink), f.depth + 1)

\* the middle branch it sometimes draws
MiddleBranch(f) ==
    BranchCall(Mul(Mul(f.length, BranchLength), MiddleShrink),
               Mul(Mul(f.thickness, BranchShrink), MiddleShrink), f.depth + 1)

Top(stack) == stack[Len(stack)]
Pop(stack) == SubSeq(stack, 1, Len(stack) - 1)
SetPc(stack, pc) == [stack EXCEPT ![Len(stack)].pc = pc]

BranchInit ==
    /\ \E st \in BranchStarts :
          branch = [start |-> st,
                    stack |-> <<BranchCall(st.length, st.thickness, 0)>>,
                    glyphs |-> 0, ends |-> 0, strokes |-> 0, middles |-> 0]
    /\ page = "thanksgiving" /\ rnd = 0 /\ canvas = DefaultCanvas
    /\ time = 0 /\ wind = 0 /\ targetWind = 0 /\ events = 0
    /\ leaf = None /\ ember = None /\ amb = None /\ drawn = None
    /\ recycles = None /\ config = None /\ burst = None
    /\ PageIdle
    /\ auto = None /\ konami = None

\* drawBranch is entered: it draws the leaf and returns, or strokes the
\* branch and calls itself for the first side branch
DrawBranchEnter ==
    /\ branch.stack # <<>>
    /\ Top(branch.stack).pc = "enter"
    /\ LET f == Top(branch.stack)
       IN  IF BranchEnds(f.length, f.thickness)
           THEN branch' = [branch EXCEPT !.stack = Pop(branch.stack),
                                         !.glyphs = @ + 1,
                                         !.ends = @ + 1]
           ELSE branch' = [branch EXCEPT
                              !.stack = Append(SetPc(branch.stack, "second"), SideBranch(f)),
                              !.strokes = @ + 1]
    /\ UNCHANGED <<page, rnd, canvas, time, wind, targetWind, events, config, burst>>
    /\ UNCHANGED partVars
    /\ UNCHANGED pageVars
    /\ UNCHANGED <<auto, konami>>

\* a recursive call has returned: drawBranch goes on with the second side
\* branch, then with the middle branch if Math.random() > 0.6 and the
\* branch is thicker than 2, then returns
DrawBranchResume ==
    /\ branch.stack # <<>>
    /\ Top(branch.stack).pc # "enter"
    /\ LET f == Top(branch.stack)
       IN  CASE f.pc = "second" ->
                  branch' = [branch EXCEPT
                      !.stack = Append(SetPc(branch.stack, "middle"), SideBranch(f))]
             [] f.pc = "middle" ->
                  \E sometimes \in BOOLEAN :
                      IF sometimes /\ f.thickness > Px(MiddleThickness)
                      THEN branch' = [branch EXCEPT
                              !.stack = Append(SetPc(branch.stack, "return"),
                                               MiddleBranch(f)),
                              !.middles = @ + 1]
                      ELSE branch' = [branch EXCEPT !.stack = Pop(branch.stack)]
             [] f.pc = "return" ->
                  branch' = [branch EXCEPT !.stack = Pop(branch.stack)]
    /\ UNCHANGED <<page, rnd, canvas, time, wind, targetWind, events, config, burst>>
    /\ UNCHANGED partVars
    /\ UNCHANGED pageVars
    /\ UNCHANGED <<auto, konami>>

BranchNext == DrawBranchEnter \/ DrawBranchResume

\* one run of drawBranch; a call that has been made goes on running
SpecBranch == BranchInit /\ [][BranchNext]_vars /\ WF_vars(BranchNext)

RECURSIVE Pow(_, _)
Pow(b, n) == IF n = 0 THEN 1 ELSE b * Pow(b, n - 1)

\* d <= log(minLength / start) / log(branchLength), which is
\* start * branchLength^d >= minLength, in whole numbers; start is in
\* thousandths
WithinLogBound(start, d) ==
    (start \div 100) * Pow(BranchLength \div 100, d) >= (10 * MinLength) * Pow(10, d)

\* C11: drawBranch terminates for every start and every outcome of the
\* random choices: every activation is one level below its caller with a
\* strictly smaller length and thickness, its depth d is 0 or satisfies
\* d - 1 <= log(minLength / startLength) / log(branchLength), a call ends a
\* path exactly when it draws a leaf glyph, and the run ends with one glyph
\* for each path of the tree of calls (one more than the side and middle
\* branches added beyond the first of each stroke).
C11_BranchRecursionTerminates ==
    /\ [](\A i \in 1 .. Len(branch.stack) :
            LET f == branch.stack[i]
            IN  /\ f.depth = i - 1
                /\ i > 1 => /\ f.length < branch.stack[i - 1].length
                            /\ f.thickness < branch.stack[i - 1].thickness
                /\ f.depth = 0 \/ WithinLogBound(branch.start.length, f.depth - 1))
    /\ [](branch.glyphs = branch.ends)
    /\ [](branch.stack = <<>> => branch.glyphs = 1 + branch.strokes + branch.middles)
    /\ <>(branch.stack = <<>>)

\* C11 as stated, for a start of at least minLength: the depth d of every
\* activation satisfies d <= log(minLength / startLength) / log(branchLength).
C11_DepthWithinLogBound ==
    branch.start.length >= Px(MinLength) =>
        \A i \in 1 .. Len(branch.stack) :
            WithinLogBound(branch.start.length, branch.stack[i].depth)

\* a finished run from the trunk of a 60-high canvas that drew a middle branch
C11_Witness ==
    /\ branch # None
    /\ branch.stack = <<>>
    /\ branch.start = Trunk(60)
    /\ branch.middles >= 1
    /\ branch.glyphs >= 9

-----------------------------------------------------------------------------
(* One system of a page with the calls its owner makes *)

MaxTreeDraws == 14
MaxResizes == 1

\* a wishes section tall and wide enough for a star to fade out inside it
WishSizes == {[width |-> 40, height |-> 30], [width |-> 2000, height |-> 4000]}

\* where the user clicks the canvas
SystemPoints == {[x |-> 10, y |-> 20], [x |-> 1500, y |-> 350]}

\* the wishes releaseWish passes on
WishTexts == {text \in Texts : ~BlankText(text)}

\* the windows and seeds a drive of the fireworks is followed from
DriveSizes(drive) ==
    IF drive = "timers" THEN PageSizes ELSE {[width |-> 40, height |-> 30]}

DriveSeeds(drive) == IF drive = "timers" THEN 0 .. MaxSeed - 1 ELSE {0}

MaxWishes == 3
MaxStarts == 2
MaxAutoLaunches == 1
MaxKonami == 1
MaxKeys == 11
KonamiLength == 10
KonamiLaunches == 10

\* what acts on the FireworksSystem: the launch timers of App.init, the ball
\* drop with its auto-launch, or the keys of the Konami handler
Drives == {"timers", "ball", "keys"}

\* one system has been constructed: the GratitudeTree (its constructor has
\* drawn twice), the WishesSystem or the FireworksSystem, the last on a
\* device that asks for reduced motion
SystemInit ==
    /\ \E id \in {"tree-canvas", "wishes-canvas", "fireworks-canvas"}, drive \in Drives :
          /\ id # "fireworks-canvas" => drive = "timers"
          /\ timers = IF id = "fireworks-canvas" /\ drive = "timers"
                      THEN {[fn |-> "initialLaunch"]} ELSE {}
          /\ auto = IF id = "fireworks-canvas" /\ drive = "ball"
                    THEN [autoLaunch |-> FALSE, interval |-> 0, live |-> {}, next |-> 1,
                          launched |-> 0, hasDropped |-> FALSE, clicks |-> 0]
                    ELSE None
          /\ konami = IF id = "fireworks-canvas" /\ drive = "keys"
                      THEN [index |-> 0, systems |-> <<>>, track |-> FALSE,
                            recent |-> <<>>, pressed |-> 0]
                      ELSE None
          /\ present = {id}
          /\ page = IF id = "tree-canvas" THEN "thanksgiving" ELSE "newyear"
          /\ canvas \in IF id = "wishes-canvas" THEN WishSizes ELSE DriveSizes(drive)
          /\ rnd \in DriveSeeds(drive)
          /\ tree = IF id = "tree-canvas"
                    THEN [gratitudeLeaves |-> <<>>, animationFrame |-> 2] ELSE None
          /\ raf = IF id = "tree-canvas" THEN <<"treeDraw", "treeDraw">> ELSE <<>>
          /\ wishes = IF id = "wishes-canvas"
                      THEN [stars |-> <<>>, wishCount |-> 0, canvas |-> canvas]
                      ELSE None
    /\ config = IF "fireworks-canvas" \in present
                THEN ReducedMotion(page, InitialConfig(page))
                ELSE InitialConfig(page)
    /\ loaded = TRUE
    /\ hidden = FALSE /\ shown = None /\ built = None
    /\ error = <<>> /\ frames = 0 /\ frameDraws = None
    /\ leaves = <<>> /\ embers = <<>> /\ stars = <<>> /\ particles = <<>>
    /\ fireworks = <<>> /\ echoes = <<>>
    /\ time = 0 /\ wind = 0 /\ targetWind = 0 /\ events = 0
    /\ leaf = None /\ ember = None /\ amb = None /\ drawn = None /\ recycles = None
    /\ burst = None
    /\ branch = None

\* tree.addLeaf(text, x, y), from the add button or called directly
TreeAddLeaf ==
    /\ "tree-canvas" \in present
    /\ Len(tree.gratitudeLeaves) < MaxEntities
    /\ \E text \in Texts, pt \in ModalPoints : DoAddLeaf(text, pt)
    /\ UNCHANGED <<page, canvas, time, wind, targetWind, events, config, burst>>
    /\ UNCHANGED partVars
    /\ UNCHANGED <<hidden, shown, loaded, present, built, raf, error, frames,
                   frameDraws, leaves, embers, stars, particles, fireworks, wishes>>
    /\ UNCHANGED auxVars

\* an animation frame of the tree: every pending draw() runs and arms itself
\* again
TreeFrame ==
    /\ "tree-canvas" \in present
    /\ tree.animationFrame < MaxTreeDraws
    /\ tree' = TreeDrawTimes(tree, Count(raf, "treeDraw"))
    /\ UNCHANGED <<page, rnd, canvas, time, wind, targetWind, events, config, burst>>
    /\ UNCHANGED partVars
    /\ UNCHANGED <<hidden, shown, loaded, present, built, raf, timers, error, frames,
                   frameDraws, leaves, embers, stars, particles, fireworks, wishes,
                   echoes>>
    /\ UNCHANGED auxVars

\* GratitudeTree.resize(): it draws, and the draw arms one more callback
TreeResize ==
    /\ "tree-canvas" \in present
    /\ events < MaxResizes
    /\ tree.animationFrame < MaxTreeDraws
    /\ events' = events + 1
    /\ \E c \in PageSizes \ {canvas} : canvas' = c
    /\ tree' = TreeDraw(tree)
    /\ raf' = Append(raf, "treeDraw")
    /\ UNCHANGED <<page, rnd, time, wind, targetWind, config, burst>>
    /\ UNCHANGED partVars
    /\ UNCHANGED <<hidden, shown, loaded, present, built, timers, error, frames,
                   frameDraws, leaves, embers, stars, particles, fireworks, wishes,
                   echoes>>
    /\ UNCHANGED auxVars

\* where the next wish may be released: one star at a time is followed
\* through the far part of a wide section
WishPoints ==
    {pt \in SystemPoints :
        pt.x < 1000 \/ \A i \in 1 .. Len(wishes.stars) : wishes.stars[i].x < Px(1000)}

\* wishes.addWish(text, x, y), from releaseWish or called directly
WishesAddWish ==
    /\ "wishes-canvas" \in present
    /\ wishes.wishCount < MaxWishes
    /\ \E text \in WishTexts, pt \in WishPoints : DoAddWish(text, pt)
    /\ UNCHANGED <<page, canvas, time, wind, targetWind, events, config, burst>>
    /\ UNCHANGED partVars
    /\ UNCHANGED <<hidden, shown, loaded, present, built, raf, error, frames,
                   frameDraws, leaves, embers, stars, particles, fireworks, tree>>
    /\ UNCHANGED auxVars

\* an animation frame of the wishes: WishesSystem.update()
WishesFrame ==
    /\ "wishes-canvas" \in present
    /\ wishes' = WishesUpdate(wishes)
    /\ UNCHANGED <<page, rnd, canvas, time, wind, targetWind, events, config, burst>>
    /\ UNCHANGED partVars
    /\ UNCHANGED <<hidden, shown, loaded, present, built, raf, timers, error, frames,
                   frameDraws, leaves, embers, stars, particles, fireworks, echoes,
                   tree>>
    /\ UNCHANGED auxVars

\* WishesSystem.resize()
WishesResize ==
    /\ "wishes-canvas" \in present
    /\ events < MaxResizes
    /\ events' = events + 1
    /\ \E c \in WishSizes \ {canvas} :
          /\ canvas' = c
          /\ wishes' = [wishes EXCEPT !.canvas = c]
    /\ UNCHANGED <<page, rnd, time, wind, targetWind, config, burst>>
    /\ UNCHANGED partVars
    /\ UNCHANGED <<hidden, shown, loaded, present, built, raf, timers, error, frames,
                   frameDraws, leaves, embers, stars, particles, fireworks, echoes,
                   tree>>
    /\ UNCHANGED auxVars

\* an animation frame of the fireworks: App.animate calls update() on the
\* system App.init constructed; no code calls update() on a system the
\* Konami handler constructed
FireworksFrame ==
    /\ "fireworks-canvas" \in present
    /\ fireworks' = FireworksUpdate(fireworks)
    /\ UNCHANGED <<page, rnd, canvas, time, wind, targetWind, events, config, burst>>
    /\ UNCHANGED partVars
    /\ UNCHANGED <<hidden, shown, loaded, present, built, raf, timers, error, frames,
                   frameDraws, leaves, embers, stars, particles, wishes, echoes, tree>>
    /\ UNCHANGED auxVars

\* the fields of the system after startAutoLaunch()
Started(a) ==
    [a EXCEPT !.autoLaunch = TRUE, !.interval = a.next,
              !.live = @ \cup {a.next}, !.next = @ + 1]

\* the timer startAutoLaunch() sets to stop
StopTimer(a) == [fn |-> "stopAutoLaunch", id |-> a.next]

\* FireworksSystem.startAutoLaunch(): next numbers the setInterval handles,
\* live holds the handles no clearInterval has cleared
StartAutoLaunch ==
    /\ auto # None
    /\ auto.next <= MaxStarts
    /\ auto' = Started(auto)
    /\ timers' = timers \cup {StopTimer(auto)}
    /\ UNCHANGED <<page, rnd, canvas, time, wind, targetWind, events, config, burst>>
    /\ UNCHANGED partVars
    /\ UNCHANGED <<hidden, shown, loaded, present, built, raf, error, frames,
                   frameDraws, leaves, embers, stars, particles, fireworks, wishes,
                   echoes, tree>>
    /\ UNCHANGED <<branch, konami>>

StopAutoLaunchKeepsFlag(a) ==
    [a EXCEPT !.live = IF a.interval # 0 THEN @ \ {a.interval} ELSE @]

\* FireworksSystem.stopAutoLaunch()
StopAutoLaunch(a) ==
    [a EXCEPT !.autoLaunch = FALSE,
              !.live = IF a.interval # 0 THEN @ \ {a.interval} ELSE @]

\* stopAutoLaunch() called by its owner
StopAutoLaunchCall ==
    /\ auto # None
    /\ events < MaxResizes
    /\ events' = events + 1
    /\ auto' = StopAutoLaunch(auto)
    /\ UNCHANGED <<page, rnd, canvas, time, wind, targetWind, config, burst>>
    /\ UNCHANGED partVars
    /\ UNCHANGED pageVars
    /\ UNCHANGED <<branch, konami>>

\* the timer startAutoLaunch() set fires after 10 s; the timers fire in the
\* order they were set
StopAutoLaunchTimer ==
    /\ \E tm \in timers :
          /\ tm.fn = "stopAutoLaunch"
          /\ \A other \in timers : other.fn = "stopAutoLaunch" => tm.id <= other.id
          /\ timers' = timers \ {tm}
    /\ auto' = StopAutoLaunch(auto)
    /\ UNCHANGED <<page, rnd, canvas, time, wind, targetWind, events, config, burst>>
    /\ UNCHANGED partVars
    /\ UNCHANGED <<hidden, shown, loaded, present, built, raf, error, frames,
                   frameDraws, leaves, embers, stars, particles, fireworks, wishes,
                   echoes, tree>>
    /\ UNCHANGED <<branch, konami>>

\* a tick of an interval startAutoLaunch() set and no clearInterval has
\* cleared; above is the outcome of its Math.random() > 0.5, a draw the
\* model takes outside the stream; launched counts the launches of ticks
AutoLaunchTick ==
    /\ auto # None
    /\ auto.launched < MaxAutoLaunches
    /\ \E handle \in auto.live, above \in BOOLEAN :
          IF auto.autoLaunch /\ above
          THEN /\ fireworks' = LaunchRandom(fireworks, canvas, config.particleCount, rnd)
               /\ rnd' = Advance(rnd, 2 + FireworkDraws(config.particleCount))
               /\ auto' = [auto EXCEPT !.launched = @ + 1]
          ELSE UNCHANGED <<fireworks, rnd, auto>>
    /\ UNCHANGED <<page, canvas, time, wind, targetWind, events, config, burst>>
    /\ UNCHANGED partVars
    /\ UNCHANGED <<hidden, shown, loaded, present, built, raf, timers, error, frames,
                   frameDraws, leaves, embers, stars, particles, wishes, echoes, tree>>
    /\ UNCHANGED <<branch, konami>>

\* the timers the Konami handler sets for a system, i * 200 ms apart
KonamiTimers(system) ==
    {[fn |-> "konamiLaunch", system |-> system, i |-> i] : i \in 0 .. KonamiLaunches - 1}

\* the konamiCode array
KonamiCode == <<"ArrowUp", "ArrowUp", "ArrowDown", "ArrowDown", "ArrowLeft",
                "ArrowRight", "ArrowLeft", "ArrowRight", "KeyB", "KeyA">>

\* how many of the most recent keys are the beginning of the code
Overlap(keys) ==
    CHOOSE m \in 0 .. Len(KonamiCode) - 1 :
        /\ m <= Len(keys)
        /\ SubSeq(keys, Len(keys) - m + 1, Len(keys)) = SubSeq(KonamiCode, 1, m)
        /\ \A n \in m + 1 .. Len(KonamiCode) - 1 :
              ~(n <= Len(keys)
                /\ SubSeq(keys, Len(keys) - n + 1, Len(keys)) = SubSeq(KonamiCode, 1, n))

\* the keys tried at a press: the one the listener waits for, the one that
\* continues the code in the most recent keys, the first of the code, and one
\* outside the code
KeysTried(index, keys) ==
    {KonamiCode[index + 1], KonamiCode[Overlap(keys) + 1], "ArrowUp", "KeyX"}

\* the keys pressed so far with one more, the last KonamiLength of them
Recent(keys, key) ==
    LET all == Append(keys, key)
    IN  IF Len(all) > KonamiLength THEN Tail(all) ELSE all

\* the record of the keys pressed, where the model keeps one
Pressed(k, key) ==
    IF k.track THEN [k EXCEPT !.recent = Recent(k.recent, key), !.pressed = @ + 1]
    ELSE k

\* konamiIndex after the comparison of the keydown listener, before the
\* test against konamiCode.length
KonamiIndex(index, key) ==
    IF key = KonamiCode[index + 1] THEN index + 1 ELSE 0

\* the keydown listener; e.code is key
KeyDown ==
    /\ konami # None
    /\ Len(konami.systems) < MaxKonami
    /\ konami.track => konami.pressed < MaxKeys
    /\ \E key \in KeysTried(konami.index, konami.recent) :
          LET index == KonamiIndex(konami.index, key)
              k == Pressed(konami, key)
          IN  IF index < Len(KonamiCode)
              THEN /\ konami' = [k EXCEPT !.index = index]
                   /\ UNCHANGED timers
              ELSE IF "fireworks-canvas" \in present
              THEN /\ konami' = [k EXCEPT !.index = 0,
                                          !.systems = Append(@, [fireworks |-> <<>>])]
                   /\ timers' = timers \cup KonamiTimers(Len(konami.systems) + 1)
              ELSE /\ konami' = [k EXCEPT !.index = 0]
                   /\ UNCHANGED timers
    /\ UNCHANGED <<page, rnd, canvas, time, wind, targetWind, events, config, burst>>
    /\ UNCHANGED partVars
    /\ UNCHANGED <<hidden, shown, loaded, present, built, raf, error, frames,
                   frameDraws, leaves, embers, stars, particles, fireworks, wishes,
                   echoes, tree>>
    /\ UNCHANGED <<branch, auto>>

\* a timer of the Konami handler fires: system.launchRandom().  The timers
\* of one system fire in the order of their delays.
KonamiLaunch ==
    /\ \E tm \in timers :
          /\ tm.fn = "konamiLaunch"
          /\ \A other \in timers :
                (other.fn = "konamiLaunch" /\ other.system = tm.system) => tm.i <= other.i
          /\ timers' = timers \ {tm}
          /\ konami' = [konami EXCEPT !.systems[tm.system].fireworks =
                           LaunchRandom(@, canvas, config.particleCount, rnd)]
    /\ rnd' = Advance(rnd, 2 + FireworkDraws(config.particleCount))
    /\ UNCHANGED <<page, canvas, time, wind, targetWind, events, config, burst>>
    /\ UNCHANGED partVars
    /\ UNCHANGED <<hidden, shown, loaded, present, built, raf, error, frames,
                   frameDraws, leaves, embers, stars, particles, fireworks, wishes,
                   echoes, tree>>
    /\ UNCHANGED <<branch, auto>>

SystemNext ==
    \/ FireworksFrame
    \/ LaunchTimer
    \/ StartAutoLaunch
    \/ StopAutoLaunchCall
    \/ StopAutoLaunchTimer
    \/ AutoLaunchTick
    \/ KeyDown
    \/ KonamiLaunch
    \/ TreeAddLeaf
    \/ TreeFrame
    \/ TreeResize
    \/ WishesAddWish
    \/ WishesFrame
    \/ WishesResize
    \/ EchoTimeout

\* the browser keeps running animation frames and fires every timer
SpecSystem ==
    /\ SystemInit
    /\ [][SystemNext]_vars
    /\ WF_vars(TreeFrame) /\ WF_vars(WishesFrame) /\ WF_vars(FireworksFrame)
    /\ WF_vars(EchoTimeout) /\ WF_vars(LaunchTimer)
    /\ WF_vars(StopAutoLaunchTimer) /\ WF_vars(KonamiLaunch)

\* the system instances constructed on a canvas: the one the page's load
\* handler constructed and, on the fireworks canvas, those of the Konami handler
Instances(id) ==
    (IF id \in present THEN 1 ELSE 0)
        + (IF id = "fireworks-canvas" /\ konami # None THEN Len(konami.systems) ELSE 0)

\* C13: every canvas the page has is owned by exactly one system instance,
\* whatever keys (the Konami sequence included), clicks and resizes came before
C13_OneSystemPerCanvas ==
    \A id \in present : Instances(id) <= 1

\* the stop timer of the most recent startAutoLaunch() has fired
LastStopFired ==
    /\ auto # None
    /\ auto.next > 1
    /\ [fn |-> "stopAutoLaunch", id |-> auto.next - 1] \notin timers

\* the autoLaunch flag of the system is set
AutoLaunchOn == auto # None /\ auto.autoLaunch

\* C14: auto-launch stops: once the stop timer of the most recent
\* startAutoLaunch() has fired, whatever starts and stops came before,
\* autoLaunch is false and no interval tick adds a burst; no tick adds a burst
\* while autoLaunch is false; and auto-launch, once on, is switched off
C14_AutoLaunchStops ==
    /\ [](LastStopFired => ~AutoLaunchOn)
    /\ [][(auto # None /\ (LastStopFired \/ ~AutoLaunchOn))
             => (auto'.launched = auto.launched /\ fireworks' \in
                    {fireworks, FireworksUpdate(fireworks)})]_vars
    /\ (AutoLaunchOn ~> ~AutoLaunchOn)

\* started twice, both stop timers fired, a burst launched by a tick, and
\* the interval of the first start still ticking
C14_Witness ==
    /\ LastStopFired
    /\ auto.next = 3
    /\ \A tm \in timers : tm.fn # "stopAutoLaunch"
    /\ auto.live = {1}
    /\ auto.launched >= 1
    /\ ~auto.autoLaunch

\* C12: addLeaf appends exactly one entry, with size 0 and opacity 0, and
\* leaves the earlier entries as they were; the first draw after it brings
\* the size strictly between 0 and targetSize and the opacity strictly
\* between 0 and 1; every draw leaves size and opacity non-decreasing, at
\* most targetSize and at most 1.
C12_AddedLeafEasesIn ==
    [][tree # None =>
        LET old == tree.gratitudeLeaves
            new == tree'.gratitudeLeaves
        IN  /\ Len(new) \in {Len(old), Len(old) + 1}
            /\ Len(new) = Len(old) + 1 =>
                  /\ new[Len(new)].size = 0
                  /\ new[Len(new)].opacity = 0
                  /\ SubSeq(new, 1, Len(old)) = old
            /\ tree'.animationFrame > tree.animationFrame =>
                  \A i \in 1 .. Len(old) :
                      /\ old[i].size <= new[i].size
                      /\ new[i].size <= new[i].targetSize
                      /\ old[i].opacity <= new[i].opacity
                      /\ new[i].opacity <= 1000
                      /\ old[i].size = 0 =>
                            /\ 0 < new[i].size /\ new[i].size < new[i].targetSize
                            /\ 0 < new[i].opacity /\ new[i].opacity < 1000]_vars

\* a leaf added with a text and drawn through several frames, still short of
\* its target, beside a leaf not drawn yet
C12_Witness ==
    /\ tree # None
    /\ Len(tree.gratitudeLeaves) = 2
    /\ ~BlankText(tree.gratitudeLeaves[1].text)
    /\ tree.gratitudeLeaves[1].size > 0
    /\ tree.gratitudeLeaves[1].size < tree.gratitudeLeaves[1].targetSize
    /\ tree.gratitudeLeaves[1].opacity > 500
    /\ tree.gratitudeLeaves[2].size = 0
    /\ tree.animationFrame >= 10

-----------------------------------------------------------------------------
(* The pages *)

\* C1: when a named canvas is absent from the page only that system is
\* disabled: loading the page and running its frames records no error, and
\* App.animate is armed again after every run, so that exactly one animate
\* callback is pending once the page is loaded.
C1_MissingCanvasDisablesOnlyItsSystem ==
    (loaded /\ present # Canvases(page)) =>
        /\ error = <<>>
        /\ Count(raf, "animate") = 1

\* C2: whenever the page is visible again after having been hidden, every
\* target count equals the value it had before the page was hidden, also when
\* the reduced-motion check had lowered the counts.
C2_ToggleRestoresCounts ==
    (~hidden /\ shown # None) => config = shown

\* C3: no entity is ever created from empty or whitespace-only text: no
\* gratitude leaf, no wish star and no floating echo carries such a text,
\* whether it came through the add/release handlers or through addLeaf /
\* addWish.
C3_BlankTextCreatesNothing ==
    /\ tree # None =>
          \A i \in 1 .. Len(tree.gratitudeLeaves) :
              ~BlankText(tree.gratitudeLeaves[i].text)
    /\ wishes # None =>
          \A i \in 1 .. Len(wishes.stars) : ~BlankText(wishes.stars[i].text)
    /\ \A i \in 1 .. Len(echoes) : ~BlankText(echoes[i].text)

\* C4: on the Thanksgiving page exactly one frame callback is pending at
\* every moment after startup, and every frame draws the gratitude tree, the
\* leaves and the embers exactly once, after any number of resizes.
C4_OneFrameCallback ==
    (loaded /\ page = "thanksgiving") =>
        /\ Len(raf) = 1
        /\ frames > 0 =>
              /\ frameDraws.tree = 1
              /\ frameDraws.leaves = 1
              /\ frameDraws.embers = 1

\* C6: once a page is loaded, the lengths of LeafSystem.leaves,
\* EmberSystem.embers, StarfieldSystem.stars and
\* AmbientParticleSystem.particles equal the target counts that CONFIG held
\* when the systems were constructed, through every frame, resize and
\* visibility change, whatever CONFIG holds by then.
C6_PoolLengthsConstant ==
    loaded =>
        /\ page = "thanksgiving" =>
              /\ Len(leaves) = built.leaves
              /\ Len(embers) = built.embers
        /\ (page = "newyear" /\ "stars-canvas" \in present) =>
              Len(stars) = built.stars
        /\ (page = "newyear" /\ "particles-canvas" \in present) =>
              Len(particles) = built.particles

\* a New Year page built with one set of counts, running frames and resized
\* after a visibility change gave CONFIG other counts
C6_Witness ==
    /\ loaded
    /\ page = "newyear"
    /\ present = Canvases(page)
    /\ config.stars # built.stars
    /\ config.particles # built.particles
    /\ frames >= 2
    /\ events >= 1
    /\ Len(stars) = built.stars
    /\ Len(particles) = built.particles

\* C15: in every frame App.animate runs, the calls are sequential and in the
\* fixed order of the page (New Year: starfield, fireworks, particles, wishes;
\* Thanksgiving: leaves, embers), each system's update before its own draw;
\* an animate that returns has called every system and leaves exactly one
\* animate callback pending for the next frame.
C15_FrameOrder ==
    [][(frames' = frames + 1 /\ Count(raf, "animate") > 0) =>
          LET calls == frameDraws'.calls
              order == IF page = "thanksgiving" THEN <<"leaves", "embers">>
                       ELSE <<"starfield", "fireworks", "particles", "wishes">>
          IN  /\ Len(calls) <= 2 * Len(order)
              /\ \A i \in 1 .. Len(calls) :
                    /\ calls[i].system = order[(i + 1) \div 2]
                    /\ calls[i].call = IF i % 2 = 1 THEN "update" ELSE "draw"
              /\ error' = error =>
                    /\ Len(calls) = 2 * Len(order)
                    /\ Count(raf', "animate") = 1]_vars

\* two New Year frames have run all four systems and animate is pending
C15_Witness ==
    /\ page = "newyear"
    /\ frames = 2
    /\ error = <<>>
    /\ Len(frameDraws.calls) = 8
    /\ frameDraws.calls[8] = [system |-> "wishes", call |-> "draw"]
    /\ Count(raf, "animate") = 1
\* the fireworks collections of all FireworksSystem instances
Collections ==
    (IF "fireworks-canvas" \in present THEN {fireworks} ELSE {})
        \cup (IF konami = None THEN {}
              ELSE {konami.systems[i].fireworks : i \in 1 .. Len(konami.systems)})

\* some collection holds the burst of the n-th launch on it
Held(n) == \E fs \in Collections : \E i \in 1 .. Len(fs) : fs[i].id = n

\* C16: every burst launched on any FireworksSystem instance, the instance
\* of the Konami handler included, is eventually dropped from its collection,
\* and after each FireworksSystem.update() the collection holds no dead burst.
C16_EveryBurstDropped ==
    /\ \A n \in 1 .. MaxLaunches : Held(n) ~> ~Held(n)
    /\ [][fireworks' # fireworks /\ Len(fireworks') <= Len(fireworks)
            => \A i \in 1 .. Len(fireworks') : ~FireworkIsDead(fireworks'[i])]_vars
\* the stars list holds the star of the n-th addWish
StarHeld(n) ==
    /\ wishes # None
    /\ \E i \in 1 .. Len(wishes.stars) : wishes.stars[i].id = n

\* C17: every shooting star is removed for good: its horizontal velocity is
\* strictly positive; after each WishesSystem.update() no star left has
\* opacity <= 0, x > canvas.width or y < 0; a removed star never reappears;
\* and with frames running every star is removed after finitely many updates.
C17_StarsRemoved ==
    /\ [](wishes # None => \A i \in 1 .. Len(wishes.stars) : wishes.stars[i].vx > 0)
    /\ [][(wishes # None /\ wishes'.stars # wishes.stars
              /\ wishes'.wishCount = wishes.wishCount)
            => \A i \in 1 .. Len(wishes'.stars) :
                  ~ShootingStarIsDead(wishes'.stars[i], wishes'.canvas)]_vars
    /\ [][\A n \in 1 .. MaxEntities :
            (wishes # None /\ n <= wishes.wishCount /\ ~StarHeld(n)) => ~StarHeld(n)']_vars
    /\ \A n \in 1 .. MaxEntities : StarHeld(n) ~> ~StarHeld(n)

\* the first star is gone and the second has almost faded out inside the canvas
C17_Witness ==
    /\ wishes # None
    /\ wishes.wishCount = 2
    /\ events = 1
    /\ Len(wishes.stars) = 1
    /\ wishes.stars[1].id = 2
    /\ wishes.stars[1].opacity <= 40
    /\ ~ShootingStarIsDead(wishes.stars[1], wishes.canvas)
\* C18: gratitude leaves never expire: over every addLeaf, draw, resize and
\* echo timeout gratitudeLeaves only grows, and every entry stays at its
\* place in the list with its text, position, target size, colour, rotation
\* and phase.
C18_LeavesNeverExpire ==
    [][tree # None =>
          /\ Len(tree'.gratitudeLeaves) >= Len(tree.gratitudeLeaves)
          /\ \A i \in 1 .. Len(tree.gratitudeLeaves) :
                LET old == tree.gratitudeLeaves[i]
                    new == tree'.gratitudeLeaves[i]
                IN  /\ new.id = old.id
                    /\ new.text = old.text
                    /\ new.x = old.x /\ new.y = old.y
                    /\ new.targetSize = old.targetSize
                    /\ new.color = old.color
                    /\ new.rotation = old.rotation
                    /\ new.swayPhase = old.swayPhase]_vars

\* two leaves, in the order added, after a resize, all echo timeouts and
\* enough draws to bring the first close to full opacity
C18_Witness ==
    /\ tree # None
    /\ Len(tree.gratitudeLeaves) = 2
    /\ tree.gratitudeLeaves[1].id = 1 /\ tree.gratitudeLeaves[2].id = 2
    /\ tree.gratitudeLeaves[1].opacity > 500
    /\ events = 1
    /\ echoes = <<>> /\ timers = {}
    /\ tree.animationFrame = MaxTreeDraws
\* the entities of a collection stand in the order of the calls that made them
InCallOrder(seq) ==
    \A i, j \in 1 .. Len(seq) : i < j => seq[i].id < seq[j].id

\* C19: launch(), addWish() and addLeaf() append in call order: of two
\* entities of one collection the one of the earlier call comes first for as
\* long as both are present, whatever updates and removals happen in between.
C19_EntitiesInCallOrder ==
    /\ tree # None => InCallOrder(tree.gratitudeLeaves)
    /\ wishes # None => InCallOrder(wishes.stars)
    /\ \A fs \in Collections : InCallOrder(fs)

\* of three stars the second has been removed by an update and the first
\* still precedes the third
C19_Witness ==
    /\ wishes # None
    /\ wishes.wishCount = 3
    /\ Len(wishes.stars) = 2
    /\ wishes.stars[1].id = 1 /\ wishes.stars[2].id = 3
    /\ wishes.stars[2].trail # <<>>
\* the document shows the floating echo of the n-th addLeaf / addWish
EchoShown(n) == \E i \in 1 .. Len(echoes) : echoes[i].id = n

\* C20: every floating echo is removed by its own fire-once timer: while it
\* is shown its timer (15 s for a gratitude echo, 10 s for a wish echo) is
\* pending, with timers running it is eventually removed, and a removal takes
\* one echo away and changes neither gratitudeLeaves nor the wishes' stars
\* and wishCount.
C20_EchoesRemoved ==
    /\ [](\A i \in 1 .. Len(echoes) :
            [fn |-> "removeEcho", id |-> echoes[i].id,
             delay |-> IF page = "thanksgiving" THEN 15000 ELSE 10000] \in timers)
    /\ [][Len(echoes') < Len(echoes) =>
            /\ Len(echoes') = Len(echoes) - 1
            /\ tree' = tree
            /\ wishes' = wishes]_vars
    /\ \A n \in 1 .. MaxWishes : EchoShown(n) ~> ~EchoShown(n)

\* both echoes of two wishes are gone while a star of them still flies
C20_Witness ==
    /\ wishes # None
    /\ wishes.wishCount = 2
    /\ wishes.stars # <<>>
    /\ echoes = <<>>
    /\ timers = {}
----------------------------------------------------------------------------
(* New Year: a starfield of a few stars *)

\* stars of the pool
MaxStars == 2
\* updates a starfield is followed for
MaxStarUpdates == 130

\* the StarfieldSystem constructor has run
StarfieldInit ==
    /\ page = "newyear"
    /\ rnd \in 0 .. MaxSeed - 1
    /\ canvas \in PageSizes
    /\ config = InitialConfig("newyear")
    /\ hidden = FALSE /\ shown = None /\ loaded = TRUE /\ present = {"stars-canvas"}
    /\ built = None /\ raf = <<>> /\ timers = {} /\ error = <<>>
    /\ frames = 0 /\ frameDraws = None
    /\ leaves = <<>> /\ embers = <<>> /\ particles = <<>>
    /\ fireworks = <<>> /\ wishes = None /\ echoes = <<>> /\ tree = None
    /\ stars = NewStars(MaxStars, canvas, rnd)
    /\ burst = None
    /\ time = 0 /\ wind = 0 /\ targetWind = 0 /\ events = 0
    /\ leaf = None /\ ember = None /\ amb = None /\ drawn = None
    /\ recycles = None
    /\ AuxIdle

\* StarfieldSystem.update() in a frame
StarfieldFrame ==
    /\ time < MaxStarUpdates
    /\ time' = time + 1
    /\ stars' = StarfieldUpdate(stars)
    /\ UNCHANGED <<page, rnd, canvas, wind, targetWind, events, config, burst>>
    /\ UNCHANGED partVars
    /\ UNCHANGED <<hidden, shown, loaded, present, built, raf, timers, error, frames,
                   frameDraws, leaves, embers, particles, fireworks, wishes, echoes,
                   tree>>
    /\ UNCHANGED auxVars

\* the resize listener of the StarfieldSystem
StarfieldResized ==
    /\ events < MaxEvents
    /\ events' = events + 1
    /\ \E c \in PageSizes \ {canvas} :
          /\ canvas' = c
          /\ stars' = StarfieldResize(stars, Len(stars), c, rnd)
    /\ rnd' = Advance(rnd, StarResetDraws * Len(stars))
    /\ UNCHANGED <<page, time, wind, targetWind, config, burst>>
    /\ UNCHANGED partVars
    /\ UNCHANGED <<hidden, shown, loaded, present, built, raf, timers, error, frames,
                   frameDraws, leaves, embers, particles, fireworks, wishes, echoes,
                   tree>>
    /\ UNCHANGED auxVars

StarfieldNext == StarfieldFrame \/ StarfieldResized

SpecStarfield == StarfieldInit /\ [][StarfieldNext]_vars

\* C21: Star.update changes only twinklePhase and opacity: x, y, size,
\* colour, twinkleSpeed and baseOpacity survive every update, the opacity
\* after an update lies within [0, baseOpacity], and a star's position
\* changes only in a resize.
C21_StarUpdateOnlyTwinkles ==
    [][/\ time' # time =>
            \A i \in 1 .. Len(stars) :
                /\ Len(stars') = Len(stars)
                /\ stars'[i].x = stars[i].x /\ stars'[i].y = stars[i].y
                /\ stars'[i].size = stars[i].size
                /\ stars'[i].color = stars[i].color
                /\ stars'[i].twinkleSpeed = stars[i].twinkleSpeed
                /\ stars'[i].baseOpacity = stars[i].baseOpacity
                /\ stars'[i].hasOpacity
                /\ 0 <= stars'[i].opacity
                /\ stars'[i].opacity <= stars'[i].baseOpacity
       /\ (\E i \in 1 .. Len(stars) :
              stars'[i].x # stars[i].x \/ stars'[i].y # stars[i].y)
            => canvas' # canvas]_vars

\* after a resize and a hundred updates one star is dark and one is lit
C21_Witness ==
    /\ time >= 100
    /\ events = 1
    /\ Len(stars) = MaxStars
    /\ \E i \in 1 .. Len(stars) : stars[i].hasOpacity /\ stars[i].opacity = 0
    /\ \E i \in 1 .. Len(stars) : stars[i].hasOpacity /\ stars[i].opacity > 0
\* C22: trail histories are capped: a spark's trail never holds more than 5
\* points and a shooting star's never more than 20, and an update leaves in
\* the trail the most recent positions held before a move, oldest first: the
\* position before this move last, preceded by the newest of the older points.
C22_TrailsCapped ==
    /\ [](\A i \in 1 .. Len(fireworks) : \A j \in 1 .. Len(fireworks[i].particles) :
            Len(fireworks[i].particles[j].trail) <= 5)
    /\ [](wishes # None =>
            \A i \in 1 .. Len(wishes.stars) : Len(wishes.stars[i].trail) <= 20)
    /\ [][\A i \in 1 .. Len(fireworks) : \A n \in 1 .. Len(fireworks') :
            (fireworks'[n].id = fireworks[i].id
               /\ fireworks'[n].updates = fireworks[i].updates + 1
               /\ Len(fireworks'[n].particles) = Len(fireworks[i].particles))
            => \A j \in 1 .. Len(fireworks[i].particles) :
                  LET old == fireworks[i].particles[j]
                      new == fireworks'[n].particles[j]
                      len == Len(new.trail)
                  IN  /\ len = IF Len(old.trail) < 5 THEN Len(old.trail) + 1 ELSE 5
                      /\ new.trail[len] = [x |-> old.x, y |-> old.y, opacity |-> old.opacity]
                      /\ \A k \in 1 .. len - 1 :
                            new.trail[k] = old.trail[Len(old.trail) - (len - 1) + k]]_vars
    /\ [][wishes # None =>
            \A i \in 1 .. Len(wishes.stars) : \A n \in 1 .. Len(wishes'.stars) :
              (wishes'.stars[n].id = wishes.stars[i].id
                 /\ wishes'.stars[n] # wishes.stars[i])
              => LET old == wishes.stars[i]
                     new == wishes'.stars[n]
                     len == Len(new.trail)
                 IN  /\ len = IF Len(old.trail) < 20 THEN Len(old.trail) + 1 ELSE 20
                     /\ new.trail[len] = [x |-> old.x, y |-> old.y, opacity |-> old.opacity]
                     /\ \A k \in 1 .. len - 1 :
                           new.trail[k] = old.trail[Len(old.trail) - (len - 1) + k]]_vars

\* a burst updated ten times: its sparks have full trails of five points
C22_Witness ==
    /\ fireworks # <<>>
    /\ fireworks[1].updates >= 10
    /\ fireworks[1].particles # <<>>
    /\ \A j \in 1 .. Len(fireworks[1].particles) :
          Len(fireworks[1].particles[j].trail) = 5
\* C23: LeafSystem.draw leaves the leaves in non-decreasing depth order and
\* its sort is a permutation: after the draw of a frame the array holds
\* exactly the leaves the update of that frame produced, each as many times
\* as before, none dropped or duplicated.
C23_DrawSortsLeaves ==
    [][(page = "thanksgiving" /\ frames' = frames + 1) =>
          LET updated == LeavesUpdate(leaves, time + 1, lerp(wind, targetWind, 10),
                                      canvas, rnd).pool
          IN  /\ Len(leaves') = Len(updated)
              /\ \A i \in 1 .. Len(leaves') - 1 : leaves'[i].depth <= leaves'[i + 1].depth
              /\ \A i \in 1 .. Len(updated) :
                    Cardinality({j \in 1 .. Len(leaves') : leaves'[j] = updated[i]})
                        = Cardinality({j \in 1 .. Len(updated) : updated[j] = updated[i]})]_vars

\* two frames have drawn a pool with leaves of equal and of different depth
C23_Witness ==
    /\ page = "thanksgiving"
    /\ frames = 2
    /\ Len(leaves) >= 5
    /\ \E i \in 1 .. Len(leaves) - 1 : leaves[i].depth = leaves[i + 1].depth
    /\ \E i \in 1 .. Len(leaves) - 1 : leaves[i].depth < leaves[i + 1].depth
\* the star lies past a fading fraction of the canvas: x > 0.7 * width or
\* y < 0.1 * height
PastFraction(star, c) ==
    star.x > Mul(Px(c.width), 700) \/ star.y < Mul(Px(c.height), 100)

\* C24 (amended): a shooting star's opacity is non-increasing: an update
\* after which the star is not past a fraction leaves it unchanged, an update
\* after which it is past one lowers it by exactly 0.02, and it is 1 until the
\* first update that fades.
C24_OpacityFadesPastFractions ==
    /\ [](wishes # None =>
            \A i \in 1 .. Len(wishes.stars) :
                LET star == wishes.stars[i]
                IN  /\ star.opacity <= 1000
                    /\ star.trail = <<>> => star.opacity = 1000
                    /\ \A k \in 1 .. Len(star.trail) - 1 :
                          star.trail[k].opacity >= star.trail[k + 1].opacity)
    /\ [][wishes # None =>
            \A i \in 1 .. Len(wishes.stars) : \A n \in 1 .. Len(wishes'.stars) :
              (wishes'.stars[n].id = wishes.stars[i].id
                 /\ wishes'.stars[n] # wishes.stars[i])
              => LET old == wishes.stars[i]
                     new == wishes'.stars[n]
                 IN  IF PastFraction(new, wishes.canvas)
                     THEN new.opacity = old.opacity - 20
                     ELSE new.opacity = old.opacity]_vars

\* C24 as stated: the opacity is 1 after every update after which the star
\* is not past a fraction of the canvas.
C24_OpacityOneBeforeFractions ==
    [][wishes # None =>
          \A i \in 1 .. Len(wishes.stars) : \A n \in 1 .. Len(wishes'.stars) :
            (wishes'.stars[n].id = wishes.stars[i].id
               /\ wishes'.stars[n] # wishes.stars[i]
               /\ ~PastFraction(wishes'.stars[n], wishes.canvas))
            => wishes'.stars[n].opacity = 1000]_vars

\* a star that began to fade on a tall section flies, after a resize, short
\* of both fractions with the opacity it had reached
C24_Witness ==
    /\ wishes # None
    /\ events = 1
    /\ \E i \in 1 .. Len(wishes.stars) :
          LET star == wishes.stars[i]
          IN  /\ star.trail # <<>>
              /\ ~PastFraction(star, wishes.canvas)
              /\ star.opacity < 1000
              /\ star.trail[Len(star.trail)].opacity = star.opacity
----------------------------------------------------------------------------
(* New Year: the keydown listener *)

\* the page is loaded, no key pressed yet; the keys pressed are recorded
KeysInit ==
    /\ page = "newyear"
    /\ rnd = 0
    /\ canvas = [width |-> 40, height |-> 30]
    /\ config = InitialConfig("newyear")
    /\ hidden = FALSE /\ shown = None /\ loaded = TRUE
    /\ present = {"fireworks-canvas"}
    /\ built = None /\ raf = <<>> /\ timers = {} /\ error = <<>>
    /\ frames = 0 /\ frameDraws = None
    /\ leaves = <<>> /\ embers = <<>> /\ stars = <<>> /\ particles = <<>>
    /\ fireworks = <<>> /\ wishes = None /\ echoes = <<>> /\ tree = None
    /\ burst = None
    /\ time = 0 /\ wind = 0 /\ targetWind = 0 /\ events = 0
    /\ leaf = None /\ ember = None /\ amb = None /\ drawn = None
    /\ recycles = None
    /\ branch = None /\ auto = None
    /\ konami = [index |-> 0, systems |-> <<>>, track |-> TRUE,
                 recent |-> <<>>, pressed |-> 0]

KeysNext == KeyDown

SpecKeys == KeysInit /\ [][KeysNext]_vars

\* C25: the Konami sequence triggers the show whatever keys came before it:
\* whenever the ten most recent keys are ArrowUp, ArrowUp, ArrowDown,
\* ArrowDown, ArrowLeft, ArrowRight, ArrowLeft, ArrowRight, KeyB, KeyA, the
\* press of the last of them schedules ten launches and leaves konamiIndex
\* at 0; konamiIndex lies within 0..9 between key events.
C25_KonamiTriggersShow ==
    /\ [](konami # None => konami.index \in 0 .. 9)
    /\ [][(konami # None /\ konami'.pressed = konami.pressed + 1
             /\ konami'.recent = <<"ArrowUp", "ArrowUp", "ArrowDown", "ArrowDown",
                                    "ArrowLeft", "ArrowRight", "ArrowLeft", "ArrowRight",
                                    "KeyB", "KeyA">>)
            => /\ Len(konami'.systems) = Len(konami.systems) + 1
               /\ Cardinality(timers' \ timers) = 10
               /\ konami'.index = 0]_vars
----------------------------------------------------------------------------
(* New Year: BallDrop *)

\* clicks on the ball per behaviour
MaxClicks == 3

\* the BallDrop and its FireworksSystem are constructed, the first show is over
BallInit ==
    /\ page = "newyear"
    /\ rnd \in 0 .. MaxSeed - 1
    /\ canvas \in PageSizes
    /\ config = ReducedMotion("newyear", InitialConfig("newyear"))
    /\ hidden = FALSE /\ shown = None /\ loaded = TRUE
    /\ present = {"fireworks-canvas"}
    /\ built = None /\ raf = <<>> /\ timers = {} /\ error = <<>>
    /\ frames = 0 /\ frameDraws = None
    /\ leaves = <<>> /\ embers = <<>> /\ stars = <<>> /\ particles = <<>>
    /\ fireworks = <<>> /\ wishes = None /\ echoes = <<>> /\ tree = None
    /\ burst = None
    /\ time = 0 /\ wind = 0 /\ targetWind = 0 /\ events = 0
    /\ leaf = None /\ ember = None /\ amb = None /\ drawn = None
    /\ recycles = None
    /\ branch = None /\ konami = None
    /\ auto = [autoLaunch |-> FALSE, interval |-> 0, live |-> {}, next |-> 1,
               launched |-> 0, hasDropped |-> FALSE, clicks |-> 0]

DropAgain(a) == [ball |-> [a EXCEPT !.hasDropped = TRUE], arm |-> TRUE]

\* BallDrop.drop(): the flag after it, and whether it sets the 2500 ms timer
Drop(a) ==
    IF a.hasDropped THEN [ball |-> a, arm |-> FALSE]
    ELSE [ball |-> [a EXCEPT !.hasDropped = TRUE], arm |-> TRUE]

\* a click on the ball; clicks counts them
BallClick ==
    /\ auto # None
    /\ auto.clicks < MaxClicks
    /\ LET d == Drop(auto)
       IN  /\ auto' = [d.ball EXCEPT !.clicks = @ + 1]
           /\ timers' = IF d.arm
                        THEN timers \cup {[fn |-> "ballDropped", id |-> auto.clicks + 1]}
                        ELSE timers
    /\ UNCHANGED <<page, rnd, canvas, time, wind, targetWind, events, config, burst>>
    /\ UNCHANGED partVars
    /\ UNCHANGED <<hidden, shown, loaded, present, built, raf, error, frames,
                   frameDraws, leaves, embers, stars, particles, fireworks, wishes,
                   echoes, tree>>
    /\ UNCHANGED <<branch, konami>>

\* the timer of drop() fires after 2500 ms: startAutoLaunch()
BallTimer ==
    /\ \E tm \in timers :
          /\ tm.fn = "ballDropped"
          /\ auto' = Started(auto)
          /\ timers' = (timers \ {tm}) \cup {StopTimer(auto)}
    /\ UNCHANGED <<page, rnd, canvas, time, wind, targetWind, events, config, burst>>
    /\ UNCHANGED partVars
    /\ UNCHANGED <<hidden, shown, loaded, present, built, raf, error, frames,
                   frameDraws, leaves, embers, stars, particles, fireworks, wishes,
                   echoes, tree>>
    /\ UNCHANGED <<branch, konami>>

BallNext ==
    \/ BallClick
    \/ BallTimer
    \/ StopAutoLaunchTimer
    \/ AutoLaunchTick
    \/ FireworksFrame

SpecBall == BallInit /\ [][BallNext]_vars

\* C26: the ball drop takes effect at most once: a click after the first
\* changes nothing, auto-launch is started at most once, and a burst of the
\* auto-launch exists only after the ball was clicked and its timer has fired.
C26_BallDropsOnce ==
    /\ [](auto # None =>
            /\ auto.next <= 2
            /\ Cardinality({tm \in timers : tm.fn = "ballDropped"}) <= 1
            /\ (auto.launched > 0 \/ fireworks # <<>> \/ auto.autoLaunch) =>
                  /\ auto.hasDropped
                  /\ auto.next = 2
                  /\ \A tm \in timers : tm.fn # "ballDropped")
    /\ [][(auto # None /\ auto.hasDropped /\ auto'.clicks = auto.clicks + 1) =>
            /\ auto' = [auto EXCEPT !.clicks = @ + 1]
            /\ timers' = timers
            /\ fireworks' = fireworks]_vars

\* the ball was clicked three times; auto-launch ran once, launched a burst
\* and has stopped
C26_Witness ==
    /\ auto # None
    /\ auto.clicks = 3
    /\ auto.hasDropped
    /\ auto.next = 2
    /\ auto.launched >= 1
    /\ ~auto.autoLaunch
    /\ timers = {}
----------------------------------------------------------------------------
(* New Year: the wish counter *)

\* C27: wishCount counts the addWish calls: it starts at 0, a step that
\* pushes a star adds exactly 1 to it, no other step (an update that removes
\* dead stars, a resize, a timer) changes it, and it is never below the
\* number of stars held.
C27_WishCountCountsCalls ==
    /\ (wishes # None => wishes.wishCount = 0 /\ wishes.stars = <<>>)
    /\ [](wishes # None => wishes.wishCount >= Len(wishes.stars))
    /\ [][wishes # None =>
            IF Len(wishes'.stars) > Len(wishes.stars)
            THEN /\ Len(wishes'.stars) = Len(wishes.stars) + 1
                 /\ wishes'.wishCount = wishes.wishCount + 1
            ELSE wishes'.wishCount = wishes.wishCount]_vars

\* three wishes were made; two of the stars have died and been removed
C27_Witness ==
    /\ wishes # None
    /\ wishes.wishCount = 3
    /\ Len(wishes.stars) = 1
    /\ wishes.stars[1].id = 3
----------------------------------------------------------------------------
(* Thanksgiving: one ember through several lives *)

\* updates an ember is followed for
MaxEmberUpdates == 1010
\* positions of the random stream the first reset is drawn from
EmberSeeds == 8

\* windows low enough for an ember to leave through the top, and high enough
\* for it to burn out first
EmberSizes == {[width |-> 40, height |-> 30], [width |-> 60, height |-> 400],
               [width |-> 90, height |-> 2000]}

\* new Ember(canvas, ctx) in the EmberSystem constructor; recycles counts the
\* resets made by update and the updates since the last reset
EmberInit ==
    /\ page = NoPage
    /\ \E seed \in 0 .. EmberSeeds - 1, c \in EmberSizes :
          /\ canvas = c
          /\ ember = EmberReset(c, seed)
          /\ rnd = Advance(seed, EmberResetDraws)
    /\ leaf = None /\ amb = None /\ drawn = None
    /\ time = 0 /\ wind = 0 /\ targetWind = 0 /\ events = 0
    /\ recycles = [ember |-> 0, age |-> 0]
    /\ config = None
    /\ burst = None
    /\ PageIdle
    /\ AuxIdle

\* EmberSystem.update(): time++ and ember.update(time)
EmberFrame ==
    /\ time < MaxEmberUpdates
    /\ LET t == time + 1
           re == EmberResets(ember, t)
       IN  /\ time' = t
           /\ ember' = EmberUpdate(ember, t, canvas, rnd)
           /\ rnd' = IF re THEN Advance(rnd, EmberResetDraws) ELSE rnd
           /\ recycles' = [ember |-> recycles.ember + Bump(re),
                           age |-> IF re THEN 0 ELSE recycles.age + 1]
    /\ UNCHANGED <<page, canvas, wind, targetWind, events, leaf, amb, drawn>>
    /\ UNCHANGED <<config, burst>>
    /\ UNCHANGED pageVars
    /\ UNCHANGED auxVars

\* EmberSystem.resize() as resize listener
EmberResize ==
    /\ events < MaxEvents
    /\ events' = events + 1
    /\ \E c \in EmberSizes \ {canvas} : canvas' = c
    /\ UNCHANGED <<page, rnd, time, wind, targetWind, leaf, ember, amb, drawn, recycles>>
    /\ UNCHANGED <<config, burst>>
    /\ UNCHANGED pageVars
    /\ UNCHANGED auxVars

EmberNext == EmberFrame \/ EmberResize

SpecEmber == EmberInit /\ [][EmberNext]_vars

\* C28: an ember is recycled within a bounded number of updates: life is 1
\* after a reset, every update without a reset takes at least 0.002 from it,
\* so no ember has gone more than 500 updates in a row without a reset, and
\* after every update life is above 0 and at most 1.
C28_EmberRecycledInTime ==
    /\ [](ember # None =>
            /\ recycles.age <= 500
            /\ ember.life > 0 /\ ember.life <= 1000
            /\ ember.decay >= 2
            /\ ember.life <= 1000 - 2 * recycles.age)
    /\ [][(ember # None /\ time' = time + 1) =>
            IF recycles'.ember = recycles.ember
            THEN ember'.life <= ember.life - 2
            ELSE ember'.life = 1000 /\ recycles'.age = 0]_vars

\* an ember with the slowest decay has burnt for 499 updates without leaving
\* the canvas: its life is down to 0.002 and the next update resets it
C28_Witness ==
    /\ ember # None
    /\ recycles.age = 499
    /\ ember.life = 2
    /\ ember.y >= 0
    /\ EmberResets(ember, time + 1)
    /\ recycles.ember >= 1
----------------------------------------------------------------------------
(* New Year: the intervals of startAutoLaunch *)

\* the interval of the h-th startAutoLaunch() has not been cleared
IntervalLive(h) == auto # None /\ h \in auto.live

\* C29: a FireworksSystem has at most one auto-launch interval at any time:
\* whatever startAutoLaunch() and stopAutoLaunch() calls and timer firings came
\* before, no interval is left scheduled while autoLaunch is false, and every
\* interval startAutoLaunch() created is cleared in the end.
C29_OneIntervalTimer ==
    /\ [](auto # None =>
            /\ Cardinality(auto.live) <= 1
            /\ ~auto.autoLaunch => auto.live = {})
    /\ \A h \in 1 .. MaxStarts : IntervalLive(h) ~> ~IntervalLive(h)
====
